---- MODULE Spec2Model ----
(***************************************************************************)
(* Discovery-and-dispatch pipeline of the SHiFT code bot                   *)
(* (main_improved.py): extraction and normalisation of codes, reward       *)
(* inference, the SQLite ledger, the retry decorator, the notifiers,       *)
(* run_once, main() with its health gate, two runs at the same time, and   *)
(* the import tools (import_database_ci.py, import_old_database.py).       *)
(*                                                                         *)
(* Strings are sequences of Unicode code points, so that str.upper(), the  *)
(* character classes of the regular expressions and re.sub act on them as  *)
(* they do in Python.                                                      *)
(***************************************************************************)
EXTENDS Integers, Sequences, FiniteSets, TLC

(***************************************************************************)
(* Characters                                                              *)
(***************************************************************************)

\* 'A'..'Z'
IsUpperAZ(c) == c \in 65..90

\* 'a'..'z'
IsLowerAZ(c) == c \in 97..122

\* '0'..'9'
IsDigit09(c) == c \in 48..57

\* The four non-ASCII letters that [A-Z] matches under re.I in a str pattern:
\* U+0130, U+0131 (dotless i), U+017F (long s), U+212A (Kelvin sign).
ReIgnoreCaseExtras == {304, 305, 383, 8490}

\* [A-Z0-9] compiled with re.I (CODE_PATTERNS)
InCodeClass(c) == IsUpperAZ(c) \/ IsLowerAZ(c) \/ IsDigit09(c) \/ c \in ReIgnoreCaseExtras

\* \w of a str pattern, on the characters the model uses: letters, digits, '_'
IsWordChar(c) == InCodeClass(c) \/ c = 95

\* str.upper() on one character: a-z -> A-Z, U+0131 -> 'I', U+017F -> 'S';
\* U+0130 and U+212A are already upper case and stay as they are.
UpperChar(c) ==
    IF IsLowerAZ(c) THEN c - 32
    ELSE IF c = 305 THEN 73
    ELSE IF c = 383 THEN 83
    ELSE c

\* str.upper()
Upper(s) == [i \in 1..Len(s) |-> UpperChar(s[i])]

\* [^A-Z0-9] (no re.I): the characters re.sub removes in normalize_code
IsStripped(c) == ~(IsUpperAZ(c) \/ IsDigit09(c))

\* def normalize_code(code): re.sub(r'[^A-Z0-9]', '', code.upper())
normalize_code(code) == SelectSeq(Upper(code), LAMBDA c : ~IsStripped(c))

(***************************************************************************)
(* Regular expressions of CODE_PATTERNS and extract_codes                  *)
(***************************************************************************)

\* a pattern \b G{n} (?:- G{n}){lo,hi} \b is [n |-> n, lo |-> lo, hi |-> hi]
CODE_PATTERNS ==
    << [n |-> 5, lo |-> 4, hi |-> 4],
       [n |-> 4, lo |-> 3, hi |-> 4] >>

WordAt(t, i) == i \in 1..Len(t) /\ IsWordChar(t[i])

\* \b between positions i-1 and i
BoundaryAt(t, i) == WordAt(t, i - 1) # WordAt(t, i)

\* [A-Z0-9]{n} at position i
GroupAt(t, i, n) == \A j \in 0..(n - 1) : (i + j) \in 1..Len(t) /\ InCodeClass(t[i + j])

\* (?:-[A-Z0-9]{n}){e} right after the first group that starts at i
ExtrasAt(t, i, n, e) ==
    \A j \in 1..e :
        /\ (i + j * (n + 1) - 1) \in 1..Len(t)
        /\ t[i + j * (n + 1) - 1] = 45
        /\ GroupAt(t, i + j * (n + 1), n)

\* the repetition counts with which the pattern matches at position i
MatchCounts(t, i, pat) ==
    { e \in pat.lo..pat.hi :
        /\ BoundaryAt(t, i)
        /\ GroupAt(t, i, pat.n)
        /\ ExtrasAt(t, i, pat.n, e)
        /\ BoundaryAt(t, i + pat.n + e * (pat.n + 1)) }

SetMax(S) == CHOOSE x \in S : \A y \in S : y <= x

\* length of the match at position i (greedy repetition), 0 when there is none
MatchLen(t, i, pat) ==
    IF MatchCounts(t, i, pat) = {} THEN 0
    ELSE pat.n + SetMax(MatchCounts(t, i, pat)) * (pat.n + 1)

RECURSIVE FindAllFrom(_, _, _)
\* pat.findall(text): the non-overlapping matches, scanning left to right
FindAllFrom(t, i, pat) ==
    IF i > Len(t) THEN << >>
    ELSE IF MatchLen(t, i, pat) > 0
         THEN << SubSeq(t, i, i + MatchLen(t, i, pat) - 1) >>
              \o FindAllFrom(t, i + MatchLen(t, i, pat), pat)
         ELSE FindAllFrom(t, i + 1, pat)

findall(pat, t) == FindAllFrom(t, 1, pat)

SeqToSet(s) == { s[i] : i \in 1..Len(s) }

RECURSIVE JoinHyphen(_)
\* '-'.join(chunks)
JoinHyphen(chunks) ==
    IF Len(chunks) = 0 THEN << >>
    ELSE IF Len(chunks) = 1 THEN chunks[1]
    ELSE chunks[1] \o << 45 >> \o JoinHyphen(Tail(chunks))

\* [normalized[i:i+size] for i in range(0, len(normalized), size)]
Chunks(normalized, size) ==
    [k \in 1..(Len(normalized) \div size) |->
        SubSeq(normalized, (k - 1) * size + 1, k * size)]

\* the loop body with every re-formatted key cut into chunks of 5
FormatMatch_chunk5(m) ==
    LET normalized == normalize_code(m) IN
    IF Len(normalized) \in {16, 20, 25} THEN JoinHyphen(Chunks(normalized, 5))
    ELSE Upper(m)

\* the body of the loop of extract_codes for one match m
FormatMatch(m) ==
    LET normalized == normalize_code(m) IN
    IF Len(normalized) = 25 THEN JoinHyphen(Chunks(normalized, 5))
    ELSE IF Len(normalized) \in {16, 20} THEN JoinHyphen(Chunks(normalized, 4))
    ELSE Upper(m)

\* lexicographic order of str by code point
RECURSIVE StrLess(_, _)
StrLess(a, b) ==
    IF Len(b) = 0 THEN FALSE
    ELSE IF Len(a) = 0 THEN TRUE
    ELSE IF a[1] # b[1] THEN a[1] < b[1]
    ELSE StrLess(Tail(a), Tail(b))

RECURSIVE sorted(_)
\* sorted(found) of a set of str
sorted(S) ==
    IF S = {} THEN << >>
    ELSE LET m == CHOOSE x \in S : \A y \in S \ {x} : StrLess(x, y)
         IN << m >> \o sorted(S \ {m})

\* def extract_codes(text)
extract_codes(text) ==
    sorted(UNION { { FormatMatch(m) : m \in SeqToSet(findall(CODE_PATTERNS[p], text)) }
                   : p \in 1..Len(CODE_PATTERNS) })

(***************************************************************************)
(* Reward inference                                                        *)
(***************************************************************************)

\* str.lower() on one character: A-Z -> a-z, U+212A (Kelvin sign) -> 'k',
\* U+0130 -> 'i' followed by U+0307; the other characters of the model stay
LowerChar(c) ==
    IF IsUpperAZ(c) THEN << c + 32 >>
    ELSE IF c = 8490 THEN << 107 >>
    ELSE IF c = 304 THEN << 105, 775 >>
    ELSE << c >>

RECURSIVE Lower(_)
\* str.lower()
Lower(s) == IF s = << >> THEN << >> ELSE LowerChar(s[1]) \o Lower(Tail(s))

\* kw in text
Contains(text, kw) ==
    \E i \in 1..(Len(text) - Len(kw) + 1) : SubSeq(text, i, i + Len(kw) - 1) = kw

\* REWARD_KEYWORDS in the order of the dict; keywords as code points
REWARD_KEYWORDS ==
    <<
       [reward |-> "golden key", kws |-> <<
           \* "golden key"
           << 103, 111, 108, 100, 101, 110, 32, 107, 101, 121 >>,
           \* "golden keys"
           << 103, 111, 108, 100, 101, 110, 32, 107, 101, 121, 115 >>,
           \* "5 golden keys"
           << 53, 32, 103, 111, 108, 100, 101, 110, 32, 107, 101, 121, 115 >>,
           \* "3 golden keys"
           << 51, 32, 103, 111, 108, 100, 101, 110, 32, 107, 101, 121, 115 >>,
           \* "gold key"
           << 103, 111, 108, 100, 32, 107, 101, 121 >>,
           \* "gold keys"
           << 103, 111, 108, 100, 32, 107, 101, 121, 115 >>,
           \* "5 keys"
           << 53, 32, 107, 101, 121, 115 >>,
           \* "3 keys"
           << 51, 32, 107, 101, 121, 115 >>
       >>],
       [reward |-> "diamond key", kws |-> <<
           \* "diamond key"
           << 100, 105, 97, 109, 111, 110, 100, 32, 107, 101, 121 >>,
           \* "diamond keys"
           << 100, 105, 97, 109, 111, 110, 100, 32, 107, 101, 121, 115 >>
       >>],
       [reward |-> "vault card", kws |-> <<
           \* "vault card"
           << 118, 97, 117, 108, 116, 32, 99, 97, 114, 100 >>,
           \* "vaultcard"
           << 118, 97, 117, 108, 116, 99, 97, 114, 100 >>
       >>],
       [reward |-> "cosmetic", kws |-> <<
           \* "cosmetic"
           << 99, 111, 115, 109, 101, 116, 105, 99 >>,
           \* "skin"
           << 115, 107, 105, 110 >>,
           \* "weapon skin"
           << 119, 101, 97, 112, 111, 110, 32, 115, 107, 105, 110 >>,
           \* "head"
           << 104, 101, 97, 100 >>,
           \* "appearance"
           << 97, 112, 112, 101, 97, 114, 97, 110, 99, 101 >>,
           \* "outfit"
           << 111, 117, 116, 102, 105, 116 >>,
           \* "customization"
           << 99, 117, 115, 116, 111, 109, 105, 122, 97, 116, 105, 111, 110 >>
       >>],
       [reward |-> "weapon", kws |-> <<
           \* "weapon"
           << 119, 101, 97, 112, 111, 110 >>,
           \* "gun"
           << 103, 117, 110 >>,
           \* "legendary weapon"
           << 108, 101, 103, 101, 110, 100, 97, 114, 121, 32, 119, 101, 97, 112, 111, 110 >>,
           \* "rare weapon"
           << 114, 97, 114, 101, 32, 119, 101, 97, 112, 111, 110 >>
       >>],
       [reward |-> "eridium", kws |-> <<
           \* "eridium"
           << 101, 114, 105, 100, 105, 117, 109 >>
       >>],
       [reward |-> "xp", kws |-> <<
           \* "xp"
           << 120, 112 >>,
           \* "experience"
           << 101, 120, 112, 101, 114, 105, 101, 110, 99, 101 >>
       >>],
       [reward |-> "event", kws |-> <<
           \* "event"
           << 101, 118, 101, 110, 116 >>,
           \* "limited time"
           << 108, 105, 109, 105, 116, 101, 100, 32, 116, 105, 109, 101 >>,
           \* "expires"
           << 101, 120, 112, 105, 114, 101, 115 >>
       >>]
    >>

\* scores[reward]: the keywords of the category that occur in lower
Score(lower, r) ==
    Cardinality({ k \in 1..Len(REWARD_KEYWORDS[r].kws) :
                    Contains(lower, REWARD_KEYWORDS[r].kws[k]) })

\* infer_reward with a tie resolved to the last category of the dict
infer_reward_lasttie(text) ==
    IF text = << >> THEN "None"
    ELSE LET lower == Lower(text)
             scores == [r \in 1..Len(REWARD_KEYWORDS) |-> Score(lower, r)]
             scored == { r \in 1..Len(REWARD_KEYWORDS) : scores[r] > 0 }
         IN  IF scored = {} THEN "None"
             ELSE REWARD_KEYWORDS[
                      CHOOSE r \in scored :
                          \A q \in scored :
                              scores[q] < scores[r] \/ (scores[q] = scores[r] /\ q <= r)
                  ].reward

\* def infer_reward(text): None for an empty text or when no keyword occurs,
\* otherwise the first category (in dict order, the sort is stable) among
\* those with the highest score
infer_reward(text) ==
    IF text = << >> THEN "None"
    ELSE LET lower == Lower(text)
             scores == [r \in 1..Len(REWARD_KEYWORDS) |-> Score(lower, r)]
             scored == { r \in 1..Len(REWARD_KEYWORDS) : scores[r] > 0 }
         IN  IF scored = {} THEN "None"
             ELSE REWARD_KEYWORDS[
                      CHOOSE r \in scored :
                          \A q \in scored :
                              scores[q] < scores[r] \/ (scores[q] = scores[r] /\ r <= q)
                  ].reward

(***************************************************************************)
(* Source content the fetchers can be served                               *)
(***************************************************************************)

\* page texts (soup.get_text of the fetched page), as code points
Texts ==
    <<
       \* "AAAA-BBBB-CCCC-DDDD"
       << 65, 65, 65, 65, 45, 66, 66, 66, 66, 45, 67, 67, 67, 67, 45, 68, 68, 68, 68 >>,
       \* "aaaa-bbbb-cccc-dddd ABCDE-12345-FGHIJ-67890-KLMNO gold key" (the code
       \* of text 1 in lower case, a 5x5 code and a reward keyword)
       << 97, 97, 97, 97, 45, 98, 98, 98, 98, 45, 99, 99, 99, 99, 45, 100, 100, 100, 100, 32, 65, 66, 67, 68, 69, 45, 49, 50, 51, 52, 53, 45, 70, 71, 72, 73, 74, 45, 54, 55, 56, 57, 48, 45, 75, 76, 77, 78, 79, 32, 103, 111, 108, 100, 32, 107, 101, 121 >>,
       \* "<U+212A>AAA-BBBB-CCCC-DDDD A<U+212A>AA-BBBB-CCCC-DDDD"
       << 8490, 65, 65, 65, 45, 66, 66, 66, 66, 45, 67, 67, 67, 67, 45, 68, 68, 68, 68, 32, 65, 8490, 65, 65, 45, 66, 66, 66, 66, 45, 67, 67, 67, 67, 45, 68, 68, 68, 68 >>,
       \* "no code here"
       << 110, 111, 32, 99, 111, 100, 101, 32, 104, 101, 114, 101 >>
    >>

NTexts == Len(Texts)

\* [extract_codes(text) for each text], evaluated once
CodesOfText == [i \in 1..NTexts |-> extract_codes(Texts[i])]

\* [infer_reward(text) for each text], evaluated once
RewardOfText == [i \in 1..NTexts |-> infer_reward(Texts[i])]

\* posts a forum listing can return: title, selftext and the bodies of the
\* top-level comments are indices into Texts (0 is the empty string)
Posts ==
    << [id |-> 1, title |-> 1, selftext |-> 0, comments |-> << >>],
       [id |-> 2, title |-> 4, selftext |-> 0, comments |-> << 2 >>] >>

NPosts == Len(Posts)

TextOf(i) == IF i = 0 THEN << >> ELSE Texts[i]

(***************************************************************************)
(* Configuration (module level constants read from the environment)        *)
(***************************************************************************)

\* html: HTML_SOURCES, subs: REDDIT_SUBS, cid/csecret: REDDIT_CLIENT_ID and
\* REDDIT_CLIENT_SECRET are non-empty, discord/slack: the webhook URLs
Configs ==
    { [html |-> << 1, 2 >>, subs |-> << >>, cid |-> FALSE, csecret |-> FALSE,
       discord |-> "https://d", slack |-> ""],
      [html |-> << 1 >>, subs |-> << 1 >>, cid |-> TRUE, csecret |-> TRUE,
       discord |-> "https://d", slack |-> "https://s"],
      [html |-> << >>, subs |-> << 1, 2 >>, cid |-> TRUE, csecret |-> TRUE,
       discord |-> "", slack |-> "https://s"],
      [html |-> << 1 >>, subs |-> << 1 >>, cid |-> TRUE, csecret |-> FALSE,
       discord |-> "", slack |-> ""],
      [html |-> << >>, subs |-> << >>, cid |-> TRUE, csecret |-> TRUE,
       discord |-> "https://d", slack |-> ""],
      [html |-> << 1 >>, subs |-> << >>, cid |-> FALSE, csecret |-> FALSE,
       discord |-> "ftp://d", slack |-> ""],
      [html |-> << 1 >>, subs |-> << >>, cid |-> FALSE, csecret |-> FALSE,
       discord |-> "", slack |-> "ftp://s"],
      [html |-> << 1 >>, subs |-> << >>, cid |-> FALSE, csecret |-> FALSE,
       discord |-> "", slack |-> "https://s"],
      [html |-> << >>, subs |-> << 1 >>, cid |-> TRUE, csecret |-> FALSE,
       discord |-> "https://d", slack |-> ""] }

\* url.startswith('http') for the webhook URLs of Configs
StartsWithHttp(url) == url \in {"https://d", "https://s"}

\* a validation that looks at the sources only
validate_config_sources_only(c) ==
    c.html # << >> \/ (c.cid /\ c.csecret /\ c.subs # << >>)

\* def validate_config(): TRUE when it returns, FALSE when it raises ValueError
validate_config(c) ==
    /\ (c.html # << >> \/ (c.cid /\ c.csecret /\ c.subs # << >>))
    /\ (c.discord # "" => StartsWithHttp(c.discord))
    /\ (c.slack # "" => StartsWithHttp(c.slack))

(***************************************************************************)
(* Ledger (table codes of the SQLite database)                             *)
(***************************************************************************)

\* code_exists as main.py has it: the lookup is by the code as given
code_exists_raw(table, code) ==
    \E i \in 1..Len(table) : table[i].normalized_code = code

\* def code_exists(conn, code): SELECT 1 FROM codes WHERE normalized_code = ?
\* an existence check that never finds a row
code_exists_never(table, code) == FALSE

code_exists(table, code) ==
    LET normalized == normalize_code(code)
    IN  \E i \in 1..Len(table) : table[i].normalized_code = normalized

\* INSERT OR IGNORE of one row: column code is UNIQUE, a conflicting row is skipped
InsertOrIgnore(table, row) ==
    IF \E i \in 1..Len(table) : table[i].code = row.code
    THEN table
    ELSE Append(table, row)

RECURSIVE ExecMany(_, _, _)
\* conn.executemany(INSERT OR IGNORE ..., codes_data) after its first n rows
ExecMany(table, codes_data, n) ==
    IF n = 0 THEN table
    ELSE InsertOrIgnore(ExecMany(table, codes_data, n - 1), codes_data[n])

\* an error path that leaves the open transaction to the next commit
rollback_missing(committed, working) == working

\* conn.rollback(): the open transaction is discarded
rollback(committed, working) == committed

\* a batch insert that empties the table first
insert_codes_batch_overwriting(table, codes_data, failAt) ==
    IF codes_data = << >> THEN [table |-> table, raised |-> FALSE]
    ELSE IF failAt = 0
         THEN [table |-> ExecMany(<< >>, codes_data, Len(codes_data)), raised |-> FALSE]
         ELSE [table |-> rollback(table, ExecMany(<< >>, codes_data, failAt - 1)),
               raised |-> TRUE]

\* def insert_codes_batch(conn, codes_data). failAt = 0: executemany and commit
\* succeed; failAt = k in 1..len: executing row k raises; failAt = len + 1:
\* commit raises. Gives the committed table and whether the call raised.
insert_codes_batch(table, codes_data, failAt) ==
    IF codes_data = << >> THEN [table |-> table, raised |-> FALSE]
    ELSE IF failAt = 0
         THEN [table |-> ExecMany(table, codes_data, Len(codes_data)), raised |-> FALSE]
         ELSE [table |-> rollback(table, ExecMany(table, codes_data, failAt - 1)),
               raised |-> TRUE]

(***************************************************************************)
(* Fetchers                                                                *)
(***************************************************************************)

\* text[:2500]
ContextLimit == 2500

Take(s, n) == SubSeq(s, 1, IF Len(s) < n THEN Len(s) ELSE n)

\* the FoundItems one document yields
ItemsOf(codes, reward, source, text) ==
    [k \in 1..Len(codes) |->
        [code |-> codes[k], reward |-> reward, source |-> source,
         context |-> Take(text, ContextLimit)]]

\* the URLs and communities that occur in Configs
Urls == UNION { SeqToSet(c.html) : c \in Configs }

Subs == UNION { SeqToSet(c.subs) : c \in Configs }

\* HtmlFetcher.fetch, lines 392-405: the items of one fetched page
PageItems ==
    [u \in Urls, t \in 1..NTexts |->
        ItemsOf(CodesOfText[t], RewardOfText[t],
                [kind |-> "HTML", loc |-> u, post |-> 0], Texts[t])]

RECURSIVE HtmlFetch_abort(_, _, _)
\* a fetch loop with the try around the whole loop: the first failing URL ends it
HtmlFetch_abort(urls, served, i) ==
    IF i > Len(urls) \/ served[i] = 0 THEN << >>
    ELSE PageItems[urls[i], served[i]] \o HtmlFetch_abort(urls, served, i + 1)

RECURSIVE HtmlFetch_failopen(_, _, _)
\* a fetch loop that falls back to an older copy of the page (text 1) when
\* the fetch of a URL fails
HtmlFetch_failopen(urls, served, i) ==
    IF i > Len(urls) THEN << >>
    ELSE PageItems[urls[i], IF served[i] = 0 THEN 1 ELSE served[i]]
         \o HtmlFetch_failopen(urls, served, i + 1)

RECURSIVE HtmlFetch(_, _, _)
\* HtmlFetcher.fetch over urls[i..]: served[i] = 0 when fetch_url (or the
\* parsing) raised for that URL, otherwise the index of the text it returned
HtmlFetch(urls, served, i) ==
    IF i > Len(urls) THEN << >>
    ELSE (IF served[i] = 0 THEN << >> ELSE PageItems[urls[i], served[i]])
         \o HtmlFetch(urls, served, i + 1)

RECURSIVE ConcatTexts(_)
\* "\n" + comment.body for each comment taken
ConcatTexts(cs) ==
    IF cs = << >> THEN << >>
    ELSE << 10 >> \o TextOf(cs[1]) \o ConcatTexts(Tail(cs))

\* min(10, len(post.comments))
CommentLimit == 10

\* RedditFetcher.fetch, lines 446-474: the items of one post;
\* commentsOk = FALSE: reading the comments raised
PostItems(sub, post, commentsOk) ==
    LET blob0 == TextOf(post.title) \o << 10, 10 >> \o TextOf(post.selftext)
        codes == extract_codes(blob0)
        blob  == IF commentsOk
                 THEN blob0 \o ConcatTexts(Take(post.comments, CommentLimit))
                 ELSE blob0
    IN  IF codes = << >> THEN << >>
        ELSE ItemsOf(codes, infer_reward(blob),
                     [kind |-> "Reddit", loc |-> sub, post |-> post.id], blob)

\* PostItems of every post of Posts, evaluated once
PostItemTable ==
    [sub \in Subs, p \in 1..NPosts, ok \in BOOLEAN |-> PostItems(sub, Posts[p], ok)]

RECURSIVE ListingItems(_, _, _)
ListingItems(sub, listing, commentsOk) ==
    IF listing = << >> THEN << >>
    ELSE PostItemTable[sub, listing[1], commentsOk]
         \o ListingItems(sub, Tail(listing), commentsOk)

RECURSIVE RedditFetch(_, _, _, _, _)
\* RedditFetcher.fetch over subs[i..]: listing is what subreddit(sub).new()
\* returns before it ends or raises (either way the loop over its posts ends);
\* subOk[i] = FALSE when the call for subs[i] raised before its first post
RedditFetch(subs, listing, subOk, commentsOk, i) ==
    IF i > Len(subs) THEN << >>
    ELSE (IF subOk[i] THEN ListingItems(subs[i], listing, commentsOk) ELSE << >>)
         \o RedditFetch(subs, listing, subOk, commentsOk, i + 1)

\* a fetcher that is enabled whenever its client comes up
RedditEnabled_nocreds(c, up) == up

\* RedditFetcher.__init__: self.enabled. up: praw was imported, the user agent
\* is non-empty and the connection test did not raise
RedditEnabled(c, up) == c.cid /\ c.csecret /\ up

\* the fetchers list of run_once
Fetchers(c, up) ==
    (IF c.html # << >> THEN << "html" >> ELSE << >>)
    \o (IF c.subs # << >> /\ RedditEnabled(c, up) THEN << "reddit" >> ELSE << >>)

\* what the outside world does in one run: up (see RedditEnabled), the text
\* each URL serves, the forum listing, which communities answer and whether
\* the comments of a post can be read
NoEnv == [up |-> TRUE, served |-> << >>, listing |-> << >>, subOk |-> << >>,
          commentsOk |-> TRUE]

\* run_once, lines 558-563: the items the fetchers yield, in order
Collect(c, e) ==
    LET fetchers == SeqToSet(Fetchers(c, e.up)) IN
    (IF "html" \in fetchers THEN HtmlFetch(c.html, e.served, 1) ELSE << >>)
    \o (IF "reddit" \in fetchers
        THEN RedditFetch(c.subs, e.listing, e.subOk, e.commentsOk, 1) ELSE << >>)

(***************************************************************************)
(* run_once as a state machine                                             *)
(***************************************************************************)

\* runs of the pipeline in one behaviour
MaxRuns == 2

\* posts in one listing
MaxPosts == 1

\* delivery calls that fail in one run
MaxDeliveryFailures == 1

VARIABLES
    cfg,              \* the configuration of the process
    ledger,           \* committed rows of table codes, in insertion order
    pc,               \* "idle", then the position of run_once:
                      \* "fetched", "persisted", "done", "raised"; "stopped"
                      \* when the process was ended after the commit
    runs,             \* runs started so far (also the clock of date_found_utc)
    yielded,          \* the FoundItems the fetchers yielded in this run
    new_items,        \* new_items of run_once
    codes_to_insert,  \* codes_to_insert of run_once
    nidx,             \* items notify_all has handled
    trace,            \* ledger commits and delivery calls of this run, in order
    raised,           \* the exception run_once raised: "", "ValueError", "DbError"
    repeat,           \* this run was served what the previous, completed, run was
    env,              \* what the outside world did in this run (see NoEnv)
    conn,             \* the connection init_db returned: "none", "open", "closed"
    result,           \* the list the last return of run_once gave back
    batchCall,        \* last direct call of insert_codes_batch (SpecBatch)
    rst,              \* the retry decorator scenario (SpecRetry)
    fcall,            \* a call of a pure function (SpecNormalize, SpecExtract,
                      \* SpecReward, SpecExcerpt)
    mainst,           \* one execution of main() (SpecMain)
    par,              \* two runs at the same time on one ledger (SpecConcurrent)
    imp,              \* the calls of the import tools (SpecImport)
    failed_batch      \* the codes of the batch the previous run failed to insert,
                      \* when this run is served what that run was

vars == << cfg, ledger, pc, runs, yielded, new_items, codes_to_insert, nidx,
           trace, raised, repeat, env, conn, result, batchCall, rst, fcall,
           mainst, par, imp, failed_batch >>

NoCall == [made |-> FALSE, pre |-> << >>, batch |-> << >>, failAt |-> 0, raised |-> FALSE]

NoFcall == [pc |-> "off", x |-> << >>, y |-> << >>, kx |-> << >>, ky |-> << >>,
            kkx |-> << >>]

\* main() is not running
NoMain == [pc |-> "off", executions |-> 0, base |-> 0, health |-> "", exit |-> -1,
           logged |-> "", exc |-> ""]

NoPar == [pc |-> "off"]

NoImp == [pc |-> "off"]

NoRetry ==
    [pc |-> "off", max_attempts |-> 0, delay |-> 0, backoff |-> 0, fails |-> 0,
     factory |-> "", binding |-> "", status |-> "", invocations |-> 0, slept |-> 0,
     caught |-> FALSE]

PipeInit ==
    /\ cfg \in Configs
    /\ ledger = << >>
    /\ pc = "idle"
    /\ runs = 0
    /\ yielded = << >>
    /\ new_items = << >>
    /\ codes_to_insert = << >>
    /\ nidx = 0
    /\ trace = << >>
    /\ raised = ""
    /\ repeat = FALSE
    /\ env = NoEnv
    /\ conn = "none"
    /\ result = << >>
    /\ failed_batch = << >>

Init ==
    /\ PipeInit
    /\ mainst = NoMain
    /\ par = NoPar
    /\ imp = NoImp
    /\ batchCall = NoCall
    /\ rst = NoRetry
    /\ fcall = NoFcall

CanStart == pc \in {"idle", "done", "raised", "stopped"} /\ runs < MaxRuns

\* a tuple whose normalized_code column is filled with the display code
RowOf_unnormalized(item, now) ==
    [code |-> item.code,
     normalized_code |-> item.code,
     reward |-> item.reward,
     source |-> item.source,
     context |-> item.context,
     date_found_utc |-> now]

\* the tuple appended to codes_to_insert for an item
RowOf(item, now) ==
    [code |-> item.code,
     normalized_code |-> normalize_code(item.code),
     reward |-> item.reward,
     source |-> item.source,
     context |-> item.context,
     date_found_utc |-> now]

\* run_once, line 527: validate_config() raises ValueError
RunOnceInvalid ==
    /\ CanStart
    /\ ~validate_config(cfg)
    /\ runs' = runs + 1
    /\ pc' = "raised"
    /\ raised' = "ValueError"
    /\ yielded' = << >>
    /\ new_items' = << >>
    /\ codes_to_insert' = << >>
    /\ nidx' = 0
    /\ trace' = << >>
    /\ repeat' = FALSE
    /\ env' = NoEnv
    /\ conn' = "none"
    /\ result' = << >>
    /\ failed_batch' = << >>
    /\ UNCHANGED << cfg, ledger, batchCall, rst, fcall, mainst, par, imp >>

\* whether the forum client comes up matters only when a community is configured
UpChoices(c) == IF c.subs # << >> /\ c.cid /\ c.csecret THEN BOOLEAN ELSE {TRUE}

\* run_once, lines 527-549: no fetcher is available, return []
RunOnceNoFetchers ==
    /\ CanStart
    /\ validate_config(cfg)
    /\ \E up \in UpChoices(cfg) :
        /\ Fetchers(cfg, up) = << >>
        /\ env' = [NoEnv EXCEPT !.up = up]
    /\ runs' = runs + 1
    /\ pc' = "done"
    /\ raised' = ""
    /\ yielded' = << >>
    /\ new_items' = << >>
    /\ codes_to_insert' = << >>
    /\ nidx' = 0
    /\ trace' = << >>
    /\ repeat' = FALSE
    /\ conn' = "none"
    /\ result' = << >>
    /\ failed_batch' = << >>
    /\ UNCHANGED << cfg, ledger, batchCall, rst, fcall, mainst, par, imp >>

\* the listings subreddit(sub).new() can return
Listings == UNION { [1..n -> 1..NPosts] : n \in 0..MaxPosts }

\* reading the comments can only fail for a post whose comments are read: one
\* with a code in its title or text (line 450) and with comments
CommentsOkChoices(listing) ==
    IF \E k \in 1..Len(listing) :
          /\ Posts[listing[k]].comments # << >>
          /\ PostItemTable[CHOOSE sub \in Subs : TRUE, listing[k], TRUE] # << >>
    THEN BOOLEAN ELSE {TRUE}

\* the environments a run with these fetchers can meet
Envs(c, up) ==
    LET fetchers == SeqToSet(Fetchers(c, up))
        hasReddit == "reddit" \in fetchers
    IN  UNION {
          { [up |-> up, served |-> served, listing |-> listing, subOk |-> subOk,
             commentsOk |-> commentsOk] :
              served \in (IF "html" \in fetchers
                          THEN [1..Len(c.html) -> 0..NTexts] ELSE {<< >>}),
              subOk \in (IF hasReddit THEN [1..Len(c.subs) -> BOOLEAN] ELSE {<< >>}),
              commentsOk \in CommentsOkChoices(listing) } :
          listing \in (IF hasReddit THEN Listings ELSE {<< >>}) }

\* run_once, lines 527-580: validate, build the fetchers, init_db, then the loop
\* over the fetchers with the existence check of every item they yield
RunOnceFetch ==
    /\ CanStart
    /\ validate_config(cfg)
    /\ \E up \in UpChoices(cfg) :
        /\ Fetchers(cfg, up) # << >>
        /\ \E e \in Envs(cfg, up) :
            LET items == Collect(cfg, e)
                fresh == SelectSeq(items, LAMBDA it : ~code_exists(ledger, it.code))
            IN  /\ env' = e
                /\ yielded' = items
                /\ new_items' = fresh
                /\ codes_to_insert' = [k \in 1..Len(fresh) |-> RowOf(fresh[k], runs + 1)]
                /\ repeat' = (pc = "done" /\ items = yielded)
                /\ failed_batch' =
                      IF pc = "raised" /\ raised = "DbError" /\ items = yielded
                      THEN [k \in 1..Len(codes_to_insert) |-> codes_to_insert[k].code]
                      ELSE << >>
    /\ runs' = runs + 1
    /\ pc' = "fetched"
    /\ raised' = ""
    /\ nidx' = 0
    /\ trace' = << >>
    /\ conn' = "open"
    /\ result' = << >>
    /\ UNCHANGED << cfg, ledger, batchCall, rst, fcall, mainst, par, imp >>

CommitEvent == [ev |-> "commit", chan |-> "", code |-> << >>, ok |-> TRUE]

DeliverEvent(chan, code, ok) == [ev |-> "deliver", chan |-> chan, code |-> code, ok |-> ok]

\* run_once, lines 582-584: insert_codes_batch; its exception is not caught
RunOncePersist ==
    /\ pc = "fetched"
    /\ \E failAt \in 0..(Len(codes_to_insert) + 1) :
        LET r == insert_codes_batch(ledger, codes_to_insert, failAt) IN
        /\ (codes_to_insert = << >> => failAt = 0)
        /\ ledger' = r.table
        /\ IF r.raised
           THEN /\ pc' = "raised"
                /\ raised' = "DbError"
                /\ trace' = trace
           ELSE /\ pc' = "persisted"
                /\ raised' = raised
                /\ trace' = IF codes_to_insert = << >> THEN trace
                            ELSE Append(trace, CommitEvent)
    /\ UNCHANGED << cfg, runs, yielded, new_items, codes_to_insert, nidx,
                    repeat, env, conn, result, batchCall, rst, fcall,
                    mainst, par, imp, failed_batch >>

Failures(tr) == Cardinality({ i \in 1..Len(tr) : tr[i].ev = "deliver" /\ ~tr[i].ok })

\* a notifier that never calls send_webhook
NotifyChannel_silent(chan, url, item, ok) == << >>

\* notify_discord / notify_slack for one item: no call when the webhook URL is
\* empty, otherwise one call of send_webhook whose exception is caught
NotifyChannel(chan, url, item, ok) ==
    IF url = "" THEN << >> ELSE << DeliverEvent(chan, item.code, ok) >>

\* the outcome of a call matters only when the channel is configured
OkChoices(url) == IF url = "" THEN {TRUE} ELSE BOOLEAN

\* notify_all called ahead of the batch insert
NotifyAllStep_early ==
    /\ pc \in {"fetched", "persisted"}
    /\ nidx < Len(new_items)
    /\ \E okD \in OkChoices(cfg.discord), okS \in OkChoices(cfg.slack) :
        LET item == new_items[nidx + 1]
            tr == trace \o NotifyChannel("discord", cfg.discord, item, okD)
                        \o NotifyChannel("slack", cfg.slack, item, okS)
        IN  /\ Failures(tr) <= MaxDeliveryFailures
            /\ trace' = tr
    /\ nidx' = nidx + 1
    /\ UNCHANGED << cfg, ledger, pc, runs, yielded, new_items, codes_to_insert,
                    raised, repeat, env, conn, result, batchCall, rst, fcall,
                    mainst, par, imp, failed_batch >>

\* notifiers without a try of their own: a failed call on the first channel
\* ends the iteration for the item
NotifyAllStep_abort ==
    /\ pc = "persisted"
    /\ nidx < Len(new_items)
    /\ \E okD \in OkChoices(cfg.discord), okS \in OkChoices(cfg.slack) :
        LET item == new_items[nidx + 1]
            tr == trace \o NotifyChannel("discord", cfg.discord, item, okD)
                        \o (IF okD THEN NotifyChannel("slack", cfg.slack, item, okS)
                            ELSE << >>)
        IN  /\ Failures(tr) <= MaxDeliveryFailures
            /\ trace' = tr
    /\ nidx' = nidx + 1
    /\ UNCHANGED << cfg, ledger, pc, runs, yielded, new_items, codes_to_insert,
                    raised, repeat, env, conn, result, batchCall, rst, fcall,
                    mainst, par, imp, failed_batch >>

\* notify_all, lines 346-353: one iteration of the loop
NotifyAllStep ==
    /\ pc = "persisted"
    /\ nidx < Len(new_items)
    /\ \E okD \in OkChoices(cfg.discord), okS \in OkChoices(cfg.slack) :
        LET item == new_items[nidx + 1]
            tr == trace \o NotifyChannel("discord", cfg.discord, item, okD)
                        \o NotifyChannel("slack", cfg.slack, item, okS)
        IN  /\ Failures(tr) <= MaxDeliveryFailures
            /\ trace' = tr
    /\ nidx' = nidx + 1
    /\ UNCHANGED << cfg, ledger, pc, runs, yielded, new_items, codes_to_insert,
                    raised, repeat, env, conn, result, batchCall, rst, fcall,
                    mainst, par, imp, failed_batch >>

\* a return that leaves out the items with a failed delivery call
RunOnceReturn_delivered ==
    /\ pc = "persisted"
    /\ nidx = Len(new_items)
    /\ pc' = "done"
    /\ conn' = "closed"
    /\ result' = SelectSeq(new_items,
                           LAMBDA it : ~\E i \in 1..Len(trace) :
                               /\ trace[i].ev = "deliver"
                               /\ trace[i].code = it.code
                               /\ ~trace[i].ok)
    /\ UNCHANGED << cfg, ledger, runs, yielded, new_items, codes_to_insert, nidx,
                    trace, raised, repeat, env, batchCall, rst, fcall,
                    mainst, par, imp, failed_batch >>

\* def collect_metrics(new_items, execution_time, fetchers): the fields that
\* depend on new_items
collect_metrics(items) ==
    [codes_found |-> Len(items),
     new_codes |-> [k \in 1..Len(items) |->
                      [code |-> items[k].code, reward |-> items[k].reward,
                       source |-> items[k].source]]]

\* run_once, lines 590-595: get_stats, conn.close(), return new_items
RunOnceReturn ==
    /\ pc = "persisted"
    /\ nidx = Len(new_items)
    /\ pc' = "done"
    /\ conn' = "closed"
    /\ result' = new_items
    /\ UNCHANGED << cfg, ledger, runs, yielded, new_items, codes_to_insert, nidx,
                    trace, raised, repeat, env, batchCall, rst, fcall,
                    mainst, par, imp, failed_batch >>

Next ==
    \/ RunOnceInvalid
    \/ RunOnceNoFetchers
    \/ RunOnceFetch
    \/ RunOncePersist
    \/ NotifyAllStep
    \/ RunOnceReturn

Spec == Init /\ [][Next]_vars

(***************************************************************************)
(* Direct calls of insert_codes_batch                                      *)
(***************************************************************************)

\* rows in one batch
MaxBatch == 2

\* codes a caller can hand to insert_codes_batch: two display forms of one
\* code ("AAAA-BBBB-CCCC-DDDD", "AAAABBBBCCCCDDDD") and one other code
BatchCodes ==
    { << 65, 65, 65, 65, 45, 66, 66, 66, 66, 45, 67, 67, 67, 67, 45, 68, 68, 68, 68 >>,
      << 65, 65, 65, 65, 66, 66, 66, 66, 67, 67, 67, 67, 68, 68, 68, 68 >>,
      << 49, 49, 49, 49, 45, 50, 50, 50, 50, 45, 51, 51, 51, 51, 45, 52, 52, 52, 52 >> }

BatchRows ==
    { RowOf([code |-> c, reward |-> "None",
             source |-> [kind |-> "HTML", loc |-> 1, post |-> 0],
             context |-> c], 1) : c \in BatchCodes }

Batches == UNION { [1..n -> BatchRows] : n \in 0..MaxBatch }

\* a caller runs insert_codes_batch(conn, codes_data) on the ledger
CallInsertBatch ==
    /\ \E batch \in Batches, failAt \in 0..(MaxBatch + 1) :
        LET r == insert_codes_batch(ledger, batch, failAt) IN
        /\ failAt <= Len(batch) + 1
        /\ (batch = << >> => failAt = 0)
        /\ ledger' = r.table
        /\ batchCall' = [made |-> TRUE, pre |-> ledger, batch |-> batch,
                         failAt |-> failAt, raised |-> r.raised]
    /\ UNCHANGED << cfg, pc, runs, yielded, new_items, codes_to_insert, nidx,
                    trace, raised, repeat, env, conn, result, rst, fcall,
                    mainst, par, imp, failed_batch >>

BatchInit ==
    /\ PipeInit
    /\ mainst = NoMain
    /\ par = NoPar
    /\ imp = NoImp
    /\ cfg.discord = "https://d" /\ cfg.slack = "https://s"
    /\ batchCall = NoCall
    /\ rst = NoRetry
    /\ fcall = NoFcall

BatchNext == CallInsertBatch

SpecBatch == BatchInit /\ [][BatchNext]_vars

(***************************************************************************)
(* The retry decorator and the functions it is applied to                  *)
(***************************************************************************)

\* largest max_attempts, delay and backoff a decoration is given, and the
\* largest number of consecutive failures of the wrapped operation
MaxAttempts == 4

MaxDelay == 2

MaxBackoff == 2

MaxFails == 4

\* @retry(max_attempts=3, delay=2) on send_webhook and fetch_url; backoff=2
RetryMaxAttempts == 3

RetryDelay == 2

RetryBackoff == 2

RECURSIVE Pow(_, _)
\* backoff ** attempt
Pow(b, e) == IF e = 0 THEN 1 ELSE b * Pow(b, e - 1)

RECURSIVE WrapperLoop(_, _, _, _, _, _)
\* wrapper, lines 67-78: the for loop from iteration attempt on; the wrapped
\* function raises in its first fails calls and returns afterwards
WrapperLoop(max_attempts, delay, backoff, fails, attempt, slept) ==
    IF attempt >= max_attempts
    THEN [status |-> "returned_wrapper", invocations |-> attempt, slept |-> slept]
    ELSE IF attempt >= fails
         THEN [status |-> "returned", invocations |-> attempt + 1, slept |-> slept]
         ELSE IF attempt = max_attempts - 1
              THEN [status |-> "raised", invocations |-> attempt + 1, slept |-> slept]
              ELSE WrapperLoop(max_attempts, delay, backoff, fails, attempt + 1,
                               slept + delay * Pow(backoff, attempt))

\* def retry(max_attempts, delay, backoff), lines 63-79: the value the call
\* returns. The body only defines decorator; "return decorator" (line 79) is
\* indented into decorator, so retry itself ends without a return statement.
retry(max_attempts, delay, backoff) == "None"

\* def decorator(func), lines 65-79: the value it returns, which is decorator
\* itself (line 79); "return wrapper" (line 78) is indented into wrapper
decorator(func) == "decorator"

\* the @ line: the value of retry(...) is called with the function. A value
\* that is not callable raises TypeError and the import of the module stops.
ApplyDecorator(factory, func) ==
    IF factory = "None" THEN "TypeError" ELSE decorator(func)

\* a use of the decorated name send_webhook(url, payload) by notify_discord or
\* notify_slack (lines 283, 333), which catch Exception
UseDecorated(r) ==
    IF r.binding = "TypeError"
    THEN [status |-> "import_failed", invocations |-> 0, slept |-> 0, caught |-> FALSE]
    ELSE IF r.binding = "decorator"
         THEN [status |-> "TypeError", invocations |-> 0, slept |-> 0, caught |-> TRUE]
         ELSE LET w == WrapperLoop(r.max_attempts, r.delay, r.backoff, r.fails, 0, 0)
              IN  [status |-> w.status, invocations |-> w.invocations,
                   slept |-> w.slept, caught |-> (w.status = "raised")]

RetryStarts ==
    { [NoRetry EXCEPT !.pc = "start", !.max_attempts = m, !.delay = d,
                      !.backoff = b, !.fails = k] :
        m \in 1..MaxAttempts, d \in 1..MaxDelay, b \in 1..MaxBackoff, k \in 0..MaxFails }

\* line 254 / 378: retry(max_attempts=..., delay=...) is evaluated
RetryFactoryCall ==
    /\ rst.pc = "start"
    /\ rst' = [rst EXCEPT !.pc = "factory",
                          !.factory = retry(rst.max_attempts, rst.delay, rst.backoff)]
    /\ UNCHANGED << cfg, ledger, pc, runs, yielded, new_items, codes_to_insert,
                    nidx, trace, raised, repeat, env, conn, result, batchCall, fcall,
                    mainst, par, imp, failed_batch >>

\* lines 254-255 / 378-379: the result is applied to the function defined below it
RetryDecorate ==
    /\ rst.pc = "factory"
    /\ rst' = [rst EXCEPT !.pc = "decorated",
                          !.binding = ApplyDecorator(rst.factory, "send_webhook")]
    /\ UNCHANGED << cfg, ledger, pc, runs, yielded, new_items, codes_to_insert,
                    nidx, trace, raised, repeat, env, conn, result, batchCall, fcall,
                    mainst, par, imp, failed_batch >>

\* the program goes on to deliver through the decorated function
RetryUse ==
    /\ rst.pc = "decorated"
    /\ LET u == UseDecorated(rst) IN
        rst' = [rst EXCEPT !.pc = "done", !.status = u.status,
                           !.invocations = u.invocations, !.slept = u.slept,
                           !.caught = u.caught]
    /\ UNCHANGED << cfg, ledger, pc, runs, yielded, new_items, codes_to_insert,
                    nidx, trace, raised, repeat, env, conn, result, batchCall, fcall,
                    mainst, par, imp, failed_batch >>

RetryInit ==
    /\ PipeInit
    /\ mainst = NoMain
    /\ par = NoPar
    /\ imp = NoImp
    /\ cfg.discord = "https://d" /\ cfg.slack = "https://s"
    /\ batchCall = NoCall
    /\ rst \in RetryStarts
    /\ fcall = NoFcall

RetryNext == RetryFactoryCall \/ RetryDecorate \/ RetryUse

SpecRetry == RetryInit /\ [][RetryNext]_vars

(***************************************************************************)
(* Calls of normalize_code                                                 *)
(***************************************************************************)

\* longest raw string built from RawAlphabet
MaxRawLen == 2

\* 'A', 'a', 'k', U+212A (Kelvin sign), '1', '-'
RawAlphabet == {65, 97, 107, 8490, 49, 45}

\* 'TEST-CODE-12345' (test_setup.py, fix_ci_issues.py)
ExampleRaw == << 84, 69, 83, 84, 45, 67, 79, 68, 69, 45, 49, 50, 51, 52, 53 >>

\* the raw strings normalize_code is called with
RawStrings ==
    UNION { [1..n -> RawAlphabet] : n \in 0..MaxRawLen } \cup {ExampleRaw}

\* normalize_code(x), normalize_code(y) and normalize_code(normalize_code(x))
CallNormalize ==
    /\ fcall.pc = "args"
    /\ fcall' = [fcall EXCEPT !.pc = "returned",
                              !.kx = normalize_code(fcall.x),
                              !.ky = normalize_code(fcall.y),
                              !.kkx = normalize_code(normalize_code(fcall.x))]
    /\ UNCHANGED << cfg, ledger, pc, runs, yielded, new_items, codes_to_insert,
                    nidx, trace, raised, repeat, env, conn, result, batchCall, rst,
                    mainst, par, imp, failed_batch >>

NormalizeInit ==
    /\ PipeInit
    /\ mainst = NoMain
    /\ par = NoPar
    /\ imp = NoImp
    /\ cfg.discord = "https://d" /\ cfg.slack = "https://s"
    /\ batchCall = NoCall
    /\ rst = NoRetry
    /\ \E x, y \in RawStrings : fcall = [NoFcall EXCEPT !.pc = "args", !.x = x, !.y = y]

NormalizeNext == CallNormalize

SpecNormalize == NormalizeInit /\ [][NormalizeNext]_vars

(* Calls of extract_codes                                                  *)
(***************************************************************************)

\* characters of a raw match replaced by another character of the class
MaxSubst == 1

\* 'ABCDE-12345-FGHIJ-67890-KLMNO', 'AAAA-BBBB-CCCC-DDDD' and
\* 'AAAA-BBBB-CCCC-DDDD-EEEE': one text for each shape CODE_PATTERNS matches
ExtractBases ==
    { << 65, 66, 67, 68, 69, 45, 49, 50, 51, 52, 53, 45, 70, 71, 72, 73, 74, 45,
         54, 55, 56, 57, 48, 45, 75, 76, 77, 78, 79 >>,
      << 65, 65, 65, 65, 45, 66, 66, 66, 66, 45, 67, 67, 67, 67, 45, 68, 68, 68, 68 >>,
      << 65, 65, 65, 65, 45, 66, 66, 66, 66, 45, 67, 67, 67, 67, 45, 68, 68, 68, 68,
         45, 69, 69, 69, 69 >> }

\* 'a', '7', U+0130, U+0131, U+017F, U+212A: characters [A-Z0-9] matches under re.I
SubstChars == {97, 55, 304, 305, 383, 8490}

\* the positions of a text where a character is replaced
SubstPositions(t) == {1, 7, Len(t)}

\* U+212A five times, then '-12345-FGHIJ-67890-KLMNO': a 5x5 match with a key of 20
KelvinGroup ==
    << 8490, 8490, 8490, 8490, 8490, 45, 49, 50, 51, 52, 53, 45, 70, 71, 72, 73, 74,
       45, 54, 55, 56, 57, 48, 45, 75, 76, 77, 78, 79 >>

\* the texts extract_codes is called with: each holds one match
ExtractTexts ==
    { [i \in 1..Len(t) |-> IF i \in DOMAIN f THEN f[i] ELSE t[i]] :
        <<t, f>> \in UNION { { <<t, f>> :
            f \in UNION { [P -> SubstChars] :
                P \in { Q \in SUBSET SubstPositions(t) : Cardinality(Q) <= MaxSubst } } }
            : t \in ExtractBases } }
    \cup {KelvinGroup}

\* extract_codes(text)
CallExtract ==
    /\ fcall.pc = "args"
    /\ fcall' = [fcall EXCEPT !.pc = "returned", !.codes = extract_codes(fcall.text)]
    /\ UNCHANGED << cfg, ledger, pc, runs, yielded, new_items, codes_to_insert,
                    nidx, trace, raised, repeat, env, conn, result, batchCall, rst,
                    mainst, par, imp, failed_batch >>

ExtractInit ==
    /\ PipeInit
    /\ mainst = NoMain
    /\ par = NoPar
    /\ imp = NoImp
    /\ cfg.discord = "https://d" /\ cfg.slack = "https://s"
    /\ batchCall = NoCall
    /\ rst = NoRetry
    /\ \E t \in ExtractTexts : fcall = [pc |-> "args", text |-> t, codes |-> << >>]

ExtractNext == CallExtract

SpecExtract == ExtractInit /\ [][ExtractNext]_vars

(***************************************************************************)
(* Calls of infer_reward                                                   *)
(***************************************************************************)

\* phrases in one text
MaxPhrases == 2

\* the phrases the texts are made of
Phrases ==
    {
      \* 'Golden Keys'
      << 71, 111, 108, 100, 101, 110, 32, 75, 101, 121, 115 >>,
      \* 'gold key'
      << 103, 111, 108, 100, 32, 107, 101, 121 >>,
      \* 'diamond key'
      << 100, 105, 97, 109, 111, 110, 100, 32, 107, 101, 121 >>,
      \* 'weapon skin'
      << 119, 101, 97, 112, 111, 110, 32, 115, 107, 105, 110 >>,
      \* 'gun'
      << 103, 117, 110 >>,
      \* 'xp'
      << 120, 112 >>,
      \* 'limited time event'
      << 108, 105, 109, 105, 116, 101, 100, 32, 116, 105, 109, 101, 32, 101, 118, 101, 110, 116 >>,
      \* 'eridium'
      << 101, 114, 105, 100, 105, 117, 109 >>,
      \* 'hello'
      << 104, 101, 108, 108, 111 >>,
      \* 'S', U+212A, 'IN'
      << 83, 8490, 73, 78 >>
    }

RECURSIVE JoinSpace(_)
\* ' '.join(parts)
JoinSpace(parts) ==
    IF Len(parts) = 0 THEN << >>
    ELSE IF Len(parts) = 1 THEN parts[1]
    ELSE parts[1] \o << 32 >> \o JoinSpace(Tail(parts))

\* the texts infer_reward is called with
RewardTexts == { JoinSpace(ps) : ps \in UNION { [1..n -> Phrases] : n \in 0..MaxPhrases } }

\* infer_reward(text)
CallInferReward ==
    /\ fcall.pc = "args"
    /\ fcall' = [fcall EXCEPT !.pc = "returned", !.reward = infer_reward(fcall.text)]
    /\ UNCHANGED << cfg, ledger, pc, runs, yielded, new_items, codes_to_insert,
                    nidx, trace, raised, repeat, env, conn, result, batchCall, rst,
                    mainst, par, imp, failed_batch >>

RewardInit ==
    /\ PipeInit
    /\ mainst = NoMain
    /\ par = NoPar
    /\ imp = NoImp
    /\ cfg.discord = "https://d" /\ cfg.slack = "https://s"
    /\ batchCall = NoCall
    /\ rst = NoRetry
    /\ \E t \in RewardTexts : fcall = [pc |-> "args", text |-> t, reward |-> ""]

RewardNext == CallInferReward

SpecReward == RewardInit /\ [][RewardNext]_vars

(***************************************************************************)
(* main(): the health gate, run_once and the handler around them           *)
(***************************************************************************)

\* executions of main(), one after the other
MaxExecutions == 1

\* def health_check(): "healthy" when the SELECT 1 on the database and the GET
\* of the session both return, "unhealthy" when either raises
health_check(dbOk, netOk) == IF dbOk /\ netOk THEN "healthy" ELSE "unhealthy"

\* main() goes on to run_once whatever health_check returned
MainHealthCheck_nogate ==
    /\ mainst.pc \in {"idle", "exited"}
    /\ mainst.executions < MaxExecutions
    /\ \E dbOk, netOk \in BOOLEAN :
        mainst' = [pc |-> "run_once", executions |-> mainst.executions + 1,
                   base |-> runs, health |-> health_check(dbOk, netOk), exit |-> -1,
                   logged |-> "", exc |-> ""]
    /\ UNCHANGED << cfg, ledger, pc, runs, yielded, new_items, codes_to_insert, nidx,
                    trace, raised, repeat, env, conn, result, batchCall, rst, fcall,
                    par, imp, failed_batch >>

\* main(), lines 599-608: the process starts, health_check() is called and an
\* unhealthy result is logged and ends main() with a plain return
MainHealthCheck ==
    /\ mainst.pc \in {"idle", "exited"}
    /\ mainst.executions < MaxExecutions
    /\ \E dbOk, netOk \in BOOLEAN :
        LET health == health_check(dbOk, netOk) IN
        mainst' = IF health # "healthy"
                  THEN [pc |-> "exited", executions |-> mainst.executions + 1,
                        base |-> runs, health |-> health, exit |-> 0,
                        logged |-> "Health check failed", exc |-> ""]
                  ELSE [pc |-> "run_once", executions |-> mainst.executions + 1,
                        base |-> runs, health |-> health, exit |-> -1,
                        logged |-> "", exc |-> ""]
    /\ UNCHANGED << cfg, ledger, pc, runs, yielded, new_items, codes_to_insert, nidx,
                    trace, raised, repeat, env, conn, result, batchCall, rst, fcall,
                    par, imp, failed_batch >>

\* main() is at or inside its call of run_once (line 611)
InRunOnce ==
    /\ mainst.pc = "run_once"
    /\ pc \in {"idle", "done", "raised"} => runs = mainst.base

\* main(), lines 612-630: run_once returned; metrics, the log lines, and main()
\* returns, so the process ends with status 0
MainReturn ==
    /\ mainst.pc = "run_once"
    /\ runs = mainst.base + 1
    /\ pc = "done"
    /\ mainst' = [mainst EXCEPT !.pc = "exited", !.exit = 0,
                                !.logged = "Bot execution completed successfully"]
    /\ UNCHANGED << cfg, ledger, pc, runs, yielded, new_items, codes_to_insert, nidx,
                    trace, raised, repeat, env, conn, result, batchCall, rst, fcall,
                    par, imp, failed_batch >>

\* a handler that logs the exception and lets main() return
MainReraise_swallow ==
    /\ mainst.pc = "run_once"
    /\ runs = mainst.base + 1
    /\ pc = "raised"
    /\ mainst' = [mainst EXCEPT !.pc = "exited", !.exit = 0,
                                !.logged = "Bot execution failed"]
    /\ UNCHANGED << cfg, ledger, pc, runs, yielded, new_items, codes_to_insert, nidx,
                    trace, raised, repeat, env, conn, result, batchCall, rst, fcall,
                    par, imp, failed_batch >>

\* main(), lines 632-635: run_once raised; except Exception logs, prints the
\* traceback and re-raises, and the uncaught exception ends the process with
\* status 1
MainReraise ==
    /\ mainst.pc = "run_once"
    /\ runs = mainst.base + 1
    /\ pc = "raised"
    /\ mainst' = [mainst EXCEPT !.pc = "exited", !.exit = 1,
                                !.logged = "Bot execution failed", !.exc = raised]
    /\ UNCHANGED << cfg, ledger, pc, runs, yielded, new_items, codes_to_insert, nidx,
                    trace, raised, repeat, env, conn, result, batchCall, rst, fcall,
                    par, imp, failed_batch >>

MainInit ==
    /\ PipeInit
    /\ mainst = [NoMain EXCEPT !.pc = "idle"]
    /\ par = NoPar
    /\ imp = NoImp
    /\ batchCall = NoCall
    /\ rst = NoRetry
    /\ fcall = NoFcall

MainNext ==
    \/ MainHealthCheck
    \/ InRunOnce /\ RunOnceInvalid
    \/ InRunOnce /\ RunOnceNoFetchers
    \/ InRunOnce /\ RunOnceFetch
    \/ InRunOnce /\ RunOncePersist
    \/ InRunOnce /\ NotifyAllStep
    \/ InRunOnce /\ RunOnceReturn
    \/ MainReturn
    \/ MainReraise

SpecMain == MainInit /\ [][MainNext]_vars

(***************************************************************************)
(* The context excerpt of notify_slack                                     *)
(***************************************************************************)

\* the character budget of the excerpt (notify_slack, line 295)
ExcerptLimit == 1500

\* U+2026, the marker put after a cut context
Marker == 8230

\* excerpt = context if len(context) < 1500 else (context[:1500] + "...")
Excerpt(context) ==
    IF Len(context) < ExcerptLimit THEN context
    ELSE Take(context, ExcerptLimit) \o << Marker >>

\* how far the lengths of the contexts go below and above the budget
MaxAround == 5

\* 'a', 'b', ' ', '\n': a context is one of these characters repeated
FillChars == {97, 98, 32, 10}

\* the lengths of the contexts: empty, one character, around the budget, and
\* the longest a fetcher yields
ContextLengths ==
    {0, 1, ContextLimit} \cup ((ExcerptLimit - MaxAround)..(ExcerptLimit + MaxAround))

Contexts == { [i \in 1..n |-> c] : n \in ContextLengths, c \in FillChars }

\* the excerpt notify_slack builds for a context
CallExcerpt ==
    /\ fcall.pc = "args"
    /\ fcall' = [fcall EXCEPT !.pc = "returned", !.excerpt = Excerpt(fcall.context)]
    /\ UNCHANGED << cfg, ledger, pc, runs, yielded, new_items, codes_to_insert,
                    nidx, trace, raised, repeat, env, conn, result, batchCall, rst,
                    mainst, par, imp, failed_batch >>

ExcerptInit ==
    /\ PipeInit
    /\ cfg.slack = "https://s" /\ cfg.discord = ""
    /\ mainst = NoMain
    /\ par = NoPar
    /\ imp = NoImp
    /\ batchCall = NoCall
    /\ rst = NoRetry
    /\ \E c \in Contexts : fcall = [pc |-> "args", context |-> c, excerpt |-> << >>]

ExcerptNext == CallExcerpt

SpecExcerpt == ExcerptInit /\ [][ExcerptNext]_vars

(***************************************************************************)
(* Two runs of run_once at the same time on one ledger                     *)
(***************************************************************************)

\* the two processes, each with its own connection to the database file
Procs == {1, 2}

\* a process that has not started its run
ParIdle == [pc |-> "idle", items |-> << >>, idx |-> 0, new_items |-> << >>,
            notified |-> << >>]

\* run_once, lines 527-560: validate, build the fetchers, and the documents
\* the fetchers of this process are served
ParFetch(p) ==
    /\ par[p].pc = "idle"
    /\ validate_config(cfg)
    /\ \E e \in Envs(cfg, TRUE) :
        par' = [par EXCEPT ![p] = [ParIdle EXCEPT !.pc = "checking",
                                                  !.items = Collect(cfg, e)]]
    /\ UNCHANGED << cfg, ledger, pc, runs, yielded, new_items, codes_to_insert, nidx,
                    trace, raised, repeat, env, conn, result, batchCall, rst, fcall,
                    mainst, imp, failed_batch >>

\* run_once, lines 563-577: code_exists for the next item, one SELECT on the
\* ledger as it is now; an absent code goes to new_items and codes_to_insert
ParCheck(p) ==
    /\ par[p].pc = "checking"
    /\ par[p].idx < Len(par[p].items)
    /\ LET item == par[p].items[par[p].idx + 1] IN
       par' = [par EXCEPT ![p].idx = @ + 1,
                          ![p].new_items = IF code_exists(ledger, item.code)
                                           THEN @ ELSE Append(@, item)]
    /\ UNCHANGED << cfg, ledger, pc, runs, yielded, new_items, codes_to_insert, nidx,
                    trace, raised, repeat, env, conn, result, batchCall, rst, fcall,
                    mainst, imp, failed_batch >>

\* run_once, lines 582-584: insert_codes_batch, one transaction of this process
ParPersist(p) ==
    /\ par[p].pc = "checking"
    /\ par[p].idx = Len(par[p].items)
    /\ ledger' = insert_codes_batch(
                     ledger,
                     [k \in 1..Len(par[p].new_items) |-> RowOf(par[p].new_items[k], 1)],
                     0).table
    /\ par' = [par EXCEPT ![p].pc = "persisted"]
    /\ UNCHANGED << cfg, pc, runs, yielded, new_items, codes_to_insert, nidx,
                    trace, raised, repeat, env, conn, result, batchCall, rst, fcall,
                    mainst, imp, failed_batch >>

\* run_once, lines 586-588: notify_all hands every new item to the notifiers
ParNotify(p) ==
    /\ par[p].pc = "persisted"
    /\ par' = [par EXCEPT ![p].pc = "done",
                          ![p].notified = [k \in 1..Len(par[p].new_items) |->
                                              par[p].new_items[k].code]]
    /\ UNCHANGED << cfg, ledger, pc, runs, yielded, new_items, codes_to_insert, nidx,
                    trace, raised, repeat, env, conn, result, batchCall, rst, fcall,
                    mainst, imp, failed_batch >>

ConcurrentInit ==
    /\ PipeInit
    /\ cfg.subs = << >> /\ validate_config(cfg)
    /\ mainst = NoMain
    /\ par = [p \in Procs |-> ParIdle]
    /\ imp = NoImp
    /\ batchCall = NoCall
    /\ rst = NoRetry
    /\ fcall = NoFcall

ConcurrentNext ==
    \E p \in Procs : ParFetch(p) \/ ParCheck(p) \/ ParPersist(p) \/ ParNotify(p)

SpecConcurrent == ConcurrentInit /\ [][ConcurrentNext]_vars

(***************************************************************************)
(* Runs whose process is ended between the commit and the return           *)
(***************************************************************************)

\* the process is ended (killed, job timeout) after insert_codes_batch has
\* committed and before run_once returns: the rest of notify_all, get_stats and
\* conn.close() do not happen; the committed rows stay
ProcessStops ==
    /\ pc = "persisted"
    /\ pc' = "stopped"
    /\ UNCHANGED << cfg, ledger, runs, yielded, new_items, codes_to_insert, nidx,
                    trace, raised, repeat, env, conn, result, batchCall, rst, fcall,
                    mainst, par, imp, failed_batch >>

StopNext == Next \/ ProcessStops

\* the configurations with one kind of source
StopInit == Init /\ (cfg.html = << >> \/ cfg.subs = << >>)

SpecStop == StopInit /\ [][StopNext]_vars

(***************************************************************************)
(* The import tools (import_database_ci.py, import_old_database.py)        *)
(***************************************************************************)

\* rows in the old ledger
MaxOld == 2

\* calls of an import tool on the same pair of ledgers
MaxImports == 2

\* main.py, extract_codes: the upper-cased raw matches, as the old bot stored them
extract_codes_old(text) ==
    sorted(UNION { { Upper(m) : m \in SeqToSet(findall(CODE_PATTERNS[p], text)) }
                   : p \in 1..Len(CODE_PATTERNS) })

\* the codes the old bot can have stored from the texts of the model
OldCodes == UNION { SeqToSet(extract_codes_old(Texts[t])) : t \in 1..NTexts }

\* a row of the old table (main.py, insert_code); 0 is a date before every run
\* of the new bot
OldRow(code) ==
    [code |-> code, reward |-> "None", source |-> [kind |-> "HTML", loc |-> 1, post |-> 0],
     context |-> << >>, date_found_utc |-> 0]

\* the old ledgers: column code is UNIQUE
OldLedgers ==
    { [k \in 1..Len(cs) |-> OldRow(cs[k])] :
        cs \in { s \in UNION { [1..n -> OldCodes] : n \in 0..MaxOld } :
                    \A i, j \in 1..Len(s) : i # j => s[i] # s[j] } }

\* the new ledgers: empty, or what one run of run_once stored from one page
NewLedgers ==
    {<< >>} \cup
    { ExecMany(<< >>,
               [k \in 1..Len(PageItems[1, t]) |-> RowOf(PageItems[1, t][k], 1)],
               Len(PageItems[1, t])) : t \in 1..NTexts }

\* the tuple appended to codes_to_import for a row of the old ledger
ImportedRow(old_code, normalized) ==
    [code |-> old_code.code,
     normalized_code |-> normalized,
     reward |-> old_code.reward,
     source |-> old_code.source,
     context |-> old_code.context,
     date_found_utc |-> old_code.date_found_utc]

RECURSIVE ImportScan_rawkey(_, _)
\* the loop with the duplicate test on the code as stored
ImportScan_rawkey(old_codes, existing_normalized) ==
    IF old_codes = << >> THEN [codes_to_import |-> << >>, duplicates |-> 0]
    ELSE LET old_code == Head(old_codes)
             normalized == normalize_code(old_code.code)
         IN  IF old_code.code \in existing_normalized
             THEN [ImportScan_rawkey(Tail(old_codes), existing_normalized)
                       EXCEPT !.duplicates = @ + 1]
             ELSE [ImportScan_rawkey(Tail(old_codes),
                                     existing_normalized \cup {old_code.code})
                       EXCEPT !.codes_to_import =
                                  << ImportedRow(old_code, normalized) >> \o @]

RECURSIVE ImportScan(_, _)
\* the loop over old_codes: a row whose normalized code is in existing_normalized
\* counts as duplicate, any other goes to codes_to_import and its normalized
\* code into existing_normalized
ImportScan(old_codes, existing_normalized) ==
    IF old_codes = << >> THEN [codes_to_import |-> << >>, duplicates |-> 0]
    ELSE LET old_code == Head(old_codes)
             normalized == normalize_code(old_code.code)
         IN  IF normalized \in existing_normalized
             THEN [ImportScan(Tail(old_codes), existing_normalized)
                       EXCEPT !.duplicates = @ + 1]
             ELSE [ImportScan(Tail(old_codes), existing_normalized \cup {normalized})
                       EXCEPT !.codes_to_import =
                                  << ImportedRow(old_code, normalized) >> \o @]

RECURSIVE ExecManyInsert(_, _)
\* executemany of a plain INSERT: a row whose code is already in the table
\* raises sqlite3.IntegrityError; gives the table and whether it raised
ExecManyInsert(table, rows) ==
    IF rows = << >> THEN [table |-> table, raised |-> FALSE]
    ELSE IF \E i \in 1..Len(table) : table[i].code = Head(rows).code
         THEN [table |-> table, raised |-> TRUE]
         ELSE ExecManyInsert(Append(table, Head(rows)), Tail(rows))

\* the part import_database and import_codes share: read the normalized codes
\* of the new ledger, scan the old rows, insert codes_to_import and commit.
\* An exception of the insert leaves the function before the commit.
ImportInto(old_codes, table) ==
    LET scan == ImportScan(old_codes,
                           { table[i].normalized_code : i \in 1..Len(table) })
        ins == ExecManyInsert(table, scan.codes_to_import)
    IN  [table |-> IF ins.raised THEN table ELSE ins.table,
         raised |-> ins.raised,
         imported |-> Len(scan.codes_to_import),
         duplicates |-> scan.duplicates]

\* def import_database(old_db_path, new_db_path): returns
\* (imported, duplicates, final_count)
CallImportDatabase ==
    /\ imp.pc \in {"ready", "returned"}
    /\ imp.calls < MaxImports
    /\ LET r == ImportInto(imp.old, ledger) IN
       /\ ledger' = r.table
       /\ imp' = [imp EXCEPT !.pc = IF r.raised THEN "raised" ELSE "returned",
                             !.calls = @ + 1,
                             !.tool = "import_database",
                             !.pre = ledger,
                             !.ret = IF r.raised THEN << >>
                                     ELSE << r.imported, r.duplicates, Len(r.table) >>]
    /\ UNCHANGED << cfg, pc, runs, yielded, new_items, codes_to_insert, nidx,
                    trace, raised, repeat, env, conn, result, batchCall, rst, fcall,
                    mainst, par, failed_batch >>

\* def import_codes(old_db_path, new_db_path): returns
\* (imported, duplicates, errors); no row of the old ledgers makes the loop
\* body raise, so errors is 0
CallImportCodes ==
    /\ imp.pc \in {"ready", "returned"}
    /\ imp.calls < MaxImports
    /\ LET r == ImportInto(imp.old, ledger) IN
       /\ ledger' = r.table
       /\ imp' = [imp EXCEPT !.pc = IF r.raised THEN "raised" ELSE "returned",
                             !.calls = @ + 1,
                             !.tool = "import_codes",
                             !.pre = ledger,
                             !.ret = IF r.raised THEN << >>
                                     ELSE << r.imported, r.duplicates, 0 >>]
    /\ UNCHANGED << cfg, pc, runs, yielded, new_items, codes_to_insert, nidx,
                    trace, raised, repeat, env, conn, result, batchCall, rst, fcall,
                    mainst, par, failed_batch >>

ImportInit ==
    /\ cfg \in Configs
    /\ cfg.discord = "https://d" /\ cfg.slack = "https://s"
    /\ ledger \in NewLedgers
    /\ pc = "idle"
    /\ runs = 0
    /\ yielded = << >>
    /\ new_items = << >>
    /\ codes_to_insert = << >>
    /\ nidx = 0
    /\ trace = << >>
    /\ raised = ""
    /\ repeat = FALSE
    /\ env = NoEnv
    /\ conn = "none"
    /\ result = << >>
    /\ failed_batch = << >>
    /\ mainst = NoMain
    /\ par = NoPar
    /\ \E old \in OldLedgers :
          imp = [pc |-> "ready", old |-> old, calls |-> 0, tool |-> "", pre |-> << >>,
                 ret |-> << >>]
    /\ batchCall = NoCall
    /\ rst = NoRetry
    /\ fcall = NoFcall

ImportNext == CallImportDatabase \/ CallImportCodes

SpecImport == ImportInit /\ [][ImportNext]_vars

(***************************************************************************)
(***************************************************************************)
(* Properties                                                              *)
(***************************************************************************)

Deliveries(chan, code) ==
    { i \in 1..Len(trace) :
        trace[i].ev = "deliver" /\ trace[i].chan = chan /\ trace[i].code = code }

ChannelOn(chan) == IF chan = "discord" THEN cfg.discord # "" ELSE cfg.slack # ""

\* C1: within one run a code found in two documents (two URLs, or a URL and a
\* forum post) and absent from the ledger is in new_items once, and when the
\* run has returned each configured channel has had exactly one delivery call
\* for each new code.
C1_NotifiedOncePerRun ==
    /\ \A i, j \in 1..Len(new_items) :
          (new_items[i].source # new_items[j].source)
              => normalize_code(new_items[i].code) # normalize_code(new_items[j].code)
    /\ pc = "done" =>
          \A i \in 1..Len(new_items), chan \in {"discord", "slack"} :
              ChannelOn(chan) => Cardinality(Deliveries(chan, new_items[i].code)) = 1

\* C2: a run that is served what the previous run was served, after that run
\* completed (its batch insert committed), finds nothing new: new_items and the
\* batch to insert are empty, the ledger is not committed to and no delivery
\* call is issued.
C2_SecondRunIdle ==
    (repeat /\ pc \in {"fetched", "persisted", "done"}) =>
        /\ new_items = << >>
        /\ codes_to_insert = << >>
        /\ trace = << >>

\* C2 witness: a repeated run has returned, and the run before it had found
\* codes and committed them
C2_Witness ==
    /\ repeat
    /\ pc = "done"
    /\ yielded # << >>
    /\ \E i \in 1..Len(ledger) : ledger[i].date_found_utc = runs - 1

\* C3: no two rows of the ledger have the same normalized_code.
C3_UniqueNormalized ==
    \A i, j \in 1..Len(ledger) :
        ledger[i].normalized_code = ledger[j].normalized_code => i = j

RowsWithKey(table, key) == { i \in 1..Len(table) : table[i].normalized_code = key }

\* C4: after insert_codes_batch returned for a batch with two items of the same
\* normalized key and different raw display forms, the ledger has exactly one
\* row for that key.
C4_OneRowPerKey ==
    (batchCall.made /\ ~batchCall.raised) =>
        \A i, j \in 1..Len(batchCall.batch) :
            (/\ batchCall.batch[i].normalized_code = batchCall.batch[j].normalized_code
             /\ batchCall.batch[i].code # batchCall.batch[j].code)
            => Cardinality(RowsWithKey(ledger, batchCall.batch[i].normalized_code)) = 1

\* the raw matches of the patterns in the texts and posts
RawMatches ==
    UNION { SeqToSet(findall(CODE_PATTERNS[p], Texts[t])) :
                p \in 1..Len(CODE_PATTERNS), t \in 1..NTexts }

\* codes to look up: raw matches, their display forms and their keys
ProbeCodes ==
    RawMatches \cup { FormatMatch(m) : m \in RawMatches }
               \cup { normalize_code(m) : m \in RawMatches }

\* C5: every row has normalized_code = normalize_code(code), and code_exists(c)
\* holds exactly when some row has normalized_code = normalize_code(c), which
\* is when some row's code normalizes to the key of c.
C5_SameNormalization ==
    /\ \A i \in 1..Len(ledger) :
          ledger[i].normalized_code = normalize_code(ledger[i].code)
    /\ \A c \in ProbeCodes :
          /\ code_exists(ledger, c)
                <=> \E i \in 1..Len(ledger) : ledger[i].normalized_code = normalize_code(c)
          /\ code_exists(ledger, c)
                <=> \E i \in 1..Len(ledger) :
                        normalize_code(ledger[i].code) = normalize_code(c)

\* C5 witness: a code in another display form than the stored one is found
C5_Witness ==
    \E c \in ProbeCodes :
        /\ code_exists(ledger, c)
        /\ \A i \in 1..Len(ledger) : ledger[i].code # c

\* C6: every delivery call of a run comes after the commit of the run's batch
\* insert, which is the first event of the run after the fetching, and the row
\* of the delivered code is in the ledger by then.
C6_PersistBeforeNotify ==
    \A i \in 1..Len(trace) :
        trace[i].ev = "deliver" =>
            /\ i > 1
            /\ trace[1].ev = "commit"
            /\ pc \in {"persisted", "done"}
            /\ code_exists(ledger, trace[i].code)

\* C6 witness: a run has returned after delivery calls
C6_Witness ==
    /\ pc = "done"
    /\ \E i \in 1..Len(trace) : trace[i].ev = "deliver"

\* C7: after a call of insert_codes_batch that failed the ledger has exactly
\* the rows it had before the call.
C7_FailedBatchRolledBack ==
    (batchCall.made /\ batchCall.raised) => ledger = batchCall.pre

\* C7 witness: a call failed after rows of its batch had been inserted
C7_Witness ==
    /\ batchCall.made
    /\ batchCall.raised
    /\ ExecMany(batchCall.pre, batchCall.batch, batchCall.failAt - 1) # batchCall.pre

\* C8: a failure of insert_codes_batch does not make run_once raise.
C8_InsertFailureNonFatal == raised # "DbError"

RECURSIVE SumBackoff(_, _, _)
\* sum of delay * backoff^i for i in 0..k-1
SumBackoff(delay, backoff, k) ==
    IF k = 0 THEN 0
    ELSE SumBackoff(delay, backoff, k - 1) + delay * Pow(backoff, k - 1)

\* C9: with max_attempts=3, delay=2, backoff=2 an operation that fails k times
\* (k in 0..2) and then succeeds is reported as delivered after k+1
\* invocations and a total sleep of the sum of delay*backoff^i for i < k.
C9_RetryThenSucceed ==
    (/\ rst.pc = "done"
     /\ rst.max_attempts = RetryMaxAttempts
     /\ rst.delay = RetryDelay
     /\ rst.backoff = RetryBackoff
     /\ rst.fails <= 2)
    => /\ rst.status = "returned"
       /\ rst.invocations = rst.fails + 1
       /\ rst.slept = SumBackoff(rst.delay, rst.backoff, rst.fails)

\* C10: the wrapped operation is invoked at most max_attempts times; when every
\* attempt fails the exception of the last attempt reaches the caller, with no
\* sleep after that attempt, and the caller catches it.
C10_RetryExhausted ==
    rst.pc = "done" =>
        /\ rst.invocations <= rst.max_attempts
        /\ rst.fails >= rst.max_attempts =>
              /\ rst.status = "raised"
              /\ rst.invocations = rst.max_attempts
              /\ rst.slept = SumBackoff(rst.delay, rst.backoff, rst.max_attempts - 1)
              /\ rst.caught

\* C11: every item notify_all has handled has had a delivery call on every
\* configured channel, whatever the outcome of the calls made before it: a
\* failed call on one channel is followed by the call on the other channel
\* for the same code and by the calls for the later codes.
C11_ChannelsIndependent ==
    \A k \in 1..nidx, chan \in {"discord", "slack"} :
        ChannelOn(chan) => Deliveries(chan, new_items[k].code) # {}

\* C11 witness: the run has returned; a call on the first channel failed, the
\* call on the other channel for the same code and a call for another code
\* came after it
C11_Witness ==
    /\ pc = "done"
    /\ \E i, j, k \in 1..Len(trace) :
          /\ i < j /\ j < k
          /\ trace[i].ev = "deliver" /\ ~trace[i].ok /\ trace[i].chan = "discord"
          /\ trace[j].ev = "deliver" /\ trace[j].chan = "slack"
          /\ trace[j].code = trace[i].code
          /\ trace[k].ev = "deliver" /\ trace[k].code # trace[i].code

InSeq(x, s) == \E k \in 1..Len(s) : s[k] = x

\* the run has gone through its fetchers
Fetched == pc \in {"fetched", "persisted", "done"} \/ (pc = "raised" /\ raised = "DbError")

\* the ledger had no row for the key of the code when the run started
NewInRun(code) ==
    ~\E r \in 1..Len(ledger) :
        /\ ledger[r].normalized_code = normalize_code(code)
        /\ ledger[r].date_found_utc < runs

\* C12: in a run that has gone through its fetchers, every URL that was served
\* a page has the items of that page among the yielded items and every
\* community that answered has the items of its posts among them, whichever
\* other URL or community failed; and every yielded item whose key the ledger
\* did not have at the start of the run is in new_items.
C12_FetchFailuresIsolated ==
    Fetched =>
        /\ \A i \in 1..Len(env.served) :
              env.served[i] # 0 =>
                  \A it \in SeqToSet(PageItems[cfg.html[i], env.served[i]]) :
                      InSeq(it, yielded)
        /\ \A i \in 1..Len(env.subOk) :
              env.subOk[i] =>
                  \A it \in SeqToSet(ListingItems(cfg.subs[i], env.listing, env.commentsOk)) :
                      InSeq(it, yielded)
        /\ \A k \in 1..Len(yielded) :
              NewInRun(yielded[k].code) => InSeq(yielded[k], new_items)

\* C12 witness: the run has returned; the fetch of the first URL failed, the
\* second URL was served a page with codes and they are in new_items
C12_Witness ==
    /\ pc = "done"
    /\ Len(env.served) = 2
    /\ env.served[1] = 0
    /\ env.served[2] # 0
    /\ PageItems[cfg.html[2], env.served[2]] # << >>
    /\ \A it \in SeqToSet(PageItems[cfg.html[2], env.served[2]]) : InSeq(it, new_items)

\* no static page is configured, and no forum community with its credentials
NoSourceConfigured(c) == c.html = << >> /\ (c.subs = << >> \/ ~c.cid \/ ~c.csecret)

\* a webhook URL is set and does not start with 'http'
MalformedWebhook(c) ==
    \/ (c.discord # "" /\ ~StartsWithHttp(c.discord))
    \/ (c.slack # "" /\ ~StartsWithHttp(c.slack))

\* C13: with no source configured, or with a non-empty webhook URL that does
\* not start with 'http', every call of run_once raises ValueError and has done
\* nothing before: no fetch was issued, the database was not opened, the
\* ledger has no row, no delivery call was made and nothing was returned.
C13_InvalidConfigAborts ==
    ((NoSourceConfigured(cfg) \/ MalformedWebhook(cfg)) /\ runs > 0) =>
        /\ pc = "raised"
        /\ raised = "ValueError"
        /\ env = NoEnv
        /\ yielded = << >>
        /\ conn = "none"
        /\ ledger = << >>
        /\ trace = << >>
        /\ result = << >>

\* C13 witness: run_once has raised twice under a configuration that has a
\* source and a malformed webhook URL
C13_Witness ==
    /\ cfg.html # << >>
    /\ MalformedWebhook(cfg)
    /\ runs = 2
    /\ pc = "raised"

\* C14: with no static page and no forum community configured, a call of
\* run_once returns an empty list and does not raise; it writes no ledger row
\* and makes no delivery call.
C14_NoSourcesReturnsEmpty ==
    (cfg.html = << >> /\ cfg.subs = << >> /\ runs > 0) =>
        /\ pc = "done"
        /\ raised = ""
        /\ result = << >>
        /\ ledger = << >>
        /\ trace = << >>

\* C15: a failed delivery call never makes run_once raise, and when run_once
\* has returned after its fetchers ran, the returned list holds every yielded
\* item whose key the ledger did not have at the start of the run, and
\* codes_found of collect_metrics counts all of them, whether or not a
\* delivery call for them failed.
C15_PartialSuccessReported ==
    /\ Failures(trace) > 0 => (pc \in {"persisted", "done"} /\ raised = "")
    /\ (pc = "done" /\ conn = "closed") =>
          /\ \A k \in 1..Len(yielded) :
                NewInRun(yielded[k].code) => InSeq(yielded[k], result)
          /\ collect_metrics(result).codes_found
                = Len(SelectSeq(yielded, LAMBDA it : NewInRun(it.code)))

\* C15 witness: run_once has returned two or more items after a delivery
\* call for one of them failed
C15_Witness ==
    /\ pc = "done"
    /\ Len(result) >= 2
    /\ \E i \in 1..Len(trace) :
          /\ trace[i].ev = "deliver"
          /\ ~trace[i].ok
          /\ \E k \in 1..Len(result) : result[k].code = trace[i].code

\* the configuration has one static page, no forum community and one channel
OnePageOneChannel(c) ==
    /\ Len(c.html) = 1
    /\ c.subs = << >>
    /\ (c.discord = "") # (c.slack = "")

\* the first run has returned, its only page held exactly one code and every
\* delivery call succeeded
C16_Scenario ==
    /\ OnePageOneChannel(cfg)
    /\ runs = 1
    /\ pc = "done"
    /\ env.served[1] # 0
    /\ Len(CodesOfText[env.served[1]]) = 1
    /\ Failures(trace) = 0

\* C16: with one static page that holds exactly one code, an empty ledger and
\* one channel whose calls succeed, run_once returns exactly that one code, the
\* ledger then has exactly one row and its normalized_code is the key of the
\* code, and the trace has exactly one delivery call, on the configured channel
\* and for that code.
C16_SingleCodeEndToEnd ==
    C16_Scenario =>
        LET code == CodesOfText[env.served[1]][1] IN
        /\ Len(result) = 1
        /\ result[1].code = code
        /\ Len(ledger) = 1
        /\ ledger[1].normalized_code = normalize_code(code)
        /\ Cardinality({ i \in 1..Len(trace) : trace[i].ev = "deliver" }) = 1
        /\ \A chan \in {"discord", "slack"} :
              ChannelOn(chan) => Cardinality(Deliveries(chan, code)) = 1

\* C16 witness: the scenario has happened and the row of the code is stored
C16_Witness ==
    /\ C16_Scenario
    /\ ledger # << >>

HtmlSource(url) == [kind |-> "HTML", loc |-> url, post |-> 0]

\* every static-page fetch of the run failed and no forum fetcher ran
AllFetchesFailed ==
    /\ Fetched
    /\ env.served # << >>
    /\ \A i \in 1..Len(env.served) : env.served[i] = 0
    /\ env.subOk = << >>

\* C17: a URL whose fetch failed contributes nothing to the run: no yielded
\* item, no new item and no ledger row of this run has it as its source. When
\* every static-page fetch of a run failed (and no forum fetcher ran) the run
\* finds nothing, commits nothing, leaves the ledger without a row of this run
\* and does not raise.
C17_TimedOutFetchNoEffect ==
    /\ Fetched =>
          \A i \in 1..Len(env.served) :
              env.served[i] = 0 =>
                  /\ \A k \in 1..Len(yielded) : yielded[k].source # HtmlSource(cfg.html[i])
                  /\ \A k \in 1..Len(new_items) : new_items[k].source # HtmlSource(cfg.html[i])
                  /\ \A r \in 1..Len(ledger) :
                        ledger[r].date_found_utc = runs
                            => ledger[r].source # HtmlSource(cfg.html[i])
    /\ AllFetchesFailed =>
          /\ pc # "raised"
          /\ new_items = << >>
          /\ codes_to_insert = << >>
          /\ \A i \in 1..Len(trace) : trace[i].ev # "commit"
          /\ \A r \in 1..Len(ledger) : ledger[r].date_found_utc < runs
          /\ pc = "done" => result = << >>

\* C17 witness: the second run has returned after every fetch of it failed,
\* with the rows of the first run in the ledger
C17_Witness ==
    /\ AllFetchesFailed
    /\ pc = "done"
    /\ runs = 2
    /\ ledger # << >>

\* the configuration with the static pages alone
HtmlOnly(c) == [c EXCEPT !.subs = << >>]

\* forum communities are configured, and the credentials are absent or the
\* client did not come up in this run
ForumOff == cfg.subs # << >> /\ ~(cfg.cid /\ cfg.csecret /\ env.up)

\* C18: in a run with forum communities configured and the forum fetcher off
\* (credentials absent, or client unavailable), run_once gets past the
\* validation when a static page is configured, the yielded items are those
\* the same pages yield under the configuration with the static pages alone,
\* new_items and the batch are the ones computed from them, and no new item and
\* no ledger row of the run comes from the forum.
C18_ForumOptional ==
    (ForumOff /\ runs > 0 /\ (cfg.html # << >> => ~MalformedWebhook(cfg))) =>
        /\ cfg.html # << >> => Fetched
        /\ yielded = Collect(HtmlOnly(cfg), env)
        /\ pc = "fetched" =>
              /\ new_items = SelectSeq(Collect(HtmlOnly(cfg), env),
                                       LAMBDA it : ~code_exists(ledger, it.code))
              /\ codes_to_insert = [k \in 1..Len(new_items) |-> RowOf(new_items[k], runs)]
        /\ \A k \in 1..Len(new_items) : new_items[k].source.kind = "HTML"
        /\ \A r \in 1..Len(ledger) :
              ledger[r].date_found_utc = runs => ledger[r].source.kind = "HTML"
        /\ \A i \in 1..Len(trace) :
              trace[i].ev = "deliver" =>
                  \E k \in 1..Len(new_items) : new_items[k].code = trace[i].code

\* C18 witness: with the forum fetcher off, run_once has returned codes of the
\* static pages after storing them and making delivery calls for them
C18_Witness ==
    /\ ForumOff
    /\ pc = "done"
    /\ result # << >>
    /\ \E r \in 1..Len(ledger) : ledger[r].date_found_utc = runs
    /\ \E i \in 1..Len(trace) : trace[i].ev = "deliver"

\* C19: no step of the pipeline deletes a ledger row or changes a field of
\* one (code, normalized_code, reward, source, context, date_found_utc): the
\* ledger before a step is a prefix of the ledger after it, also in a run that
\* meets a stored code again with another reward, source and context.
C19_LedgerAppendOnly ==
    [][/\ Len(ledger) <= Len(ledger')
       /\ \A i \in 1..Len(ledger) : ledger'[i] = ledger[i]]_vars

\* C19 witness: a run that met a stored code again, with another reward,
\* source and context, has stored a new row and returned
C19_Witness ==
    /\ pc = "done"
    /\ \E r \in 1..Len(ledger) : ledger[r].date_found_utc = runs
    /\ \E k \in 1..Len(yielded), r \in 1..Len(ledger) :
          /\ ledger[r].date_found_utc < runs
          /\ ledger[r].code = yielded[k].code
          /\ ledger[r].reward # yielded[k].reward
          /\ ledger[r].source # yielded[k].source
          /\ ledger[r].context # yielded[k].context

\* str.isalnum() on one character of the model
IsAlnum(c) == InCodeClass(c)

\* a raw string without its separators and without its case: the
\* alphanumeric characters of s.lower()
Skeleton(s) == SelectSeq(Lower(s), IsAlnum)

\* 'TESTCODE12345'
ExampleKey == << 84, 69, 83, 84, 67, 79, 68, 69, 49, 50, 51, 52, 53 >>

\* C20: two raw strings that differ only in case or in non-alphanumeric
\* separators have the same key, a key holds only the letters A-Z and digits,
\* normalize_code(normalize_code(x)) = normalize_code(x), and the key of
\* 'TEST-CODE-12345' is 'TESTCODE12345'.
C20_NormalizeEquivalence ==
    fcall.pc = "returned" =>
        /\ Skeleton(fcall.x) = Skeleton(fcall.y) => fcall.kx = fcall.ky
        /\ \A i \in 1..Len(fcall.kx) : IsUpperAZ(fcall.kx[i]) \/ IsDigit09(fcall.kx[i])
        /\ fcall.kkx = fcall.kx
        /\ fcall.x = ExampleRaw => fcall.kx = ExampleKey


\* d is key cut into g groups of n characters joined by '-'
IsGrouped(d, key, g, n) ==
    /\ Len(key) = g * n
    /\ Len(d) = g * n + g - 1
    /\ \A i \in 1..Len(d) :
        IF i % (n + 1) = 0 THEN d[i] = 45 ELSE d[i] = key[i - (i \div (n + 1))]

\* C21: extract_codes renders a match by the length of its key: 25 gives five
\* groups of five, 20 five groups of four, 16 four groups of four, any other
\* length the upper-cased raw match; normalizing the rendering gives the key.
C21_CanonicalRendering ==
    fcall.pc = "returned" =>
        /\ Len(fcall.codes) = 1
        /\ LET d == fcall.codes[1]
               key == normalize_code(fcall.text)
           IN /\ Len(key) = 25 => IsGrouped(d, key, 5, 5)
              /\ Len(key) = 20 => IsGrouped(d, key, 5, 4)
              /\ Len(key) = 16 => IsGrouped(d, key, 4, 4)
              /\ Len(key) \notin {16, 20, 25} => d = Upper(fcall.text)
              /\ normalize_code(d) = key

\* a 5x5 match whose key has 20 characters came back as five groups of four
C21_Witness ==
    /\ fcall.pc = "returned"
    /\ Len(fcall.text) = 29
    /\ Len(normalize_code(fcall.text)) = 20
    /\ Len(fcall.codes) = 1
    /\ Len(fcall.codes[1]) = 24

\* the trigger phrases of category r that occur in the lower-cased text
Hits(text, r) ==
    Cardinality({ k \in 1..Len(REWARD_KEYWORDS[r].kws) :
                    Contains(Lower(text), REWARD_KEYWORDS[r].kws[k]) })

\* C22: infer_reward returns the category with the most trigger phrases
\* occurring in the lower-cased text, the first in mapping order on a tie,
\* and None when no phrase of any category occurs.
C22_HighestScoreFirstOnTie ==
    fcall.pc = "returned" =>
        IF \A r \in 1..Len(REWARD_KEYWORDS) : Hits(fcall.text, r) = 0
        THEN fcall.reward = "None"
        ELSE \E r \in 1..Len(REWARD_KEYWORDS) :
                /\ fcall.reward = REWARD_KEYWORDS[r].reward
                /\ \A q \in 1..Len(REWARD_KEYWORDS) :
                      /\ Hits(fcall.text, q) <= Hits(fcall.text, r)
                      /\ q < r => Hits(fcall.text, q) < Hits(fcall.text, r)

\* two categories tie on the highest score and the earlier one was returned
C22_Witness ==
    /\ fcall.pc = "returned"
    /\ \E r, q \in 1..Len(REWARD_KEYWORDS) :
          /\ r < q
          /\ fcall.reward = REWARD_KEYWORDS[r].reward
          /\ Hits(fcall.text, r) > 0
          /\ Hits(fcall.text, q) = Hits(fcall.text, r)

\* C23: an exception escaping run_once is caught in main(), logged and raised
\* again, so the process does not end with the success status.
C23_RunFailureReraised ==
    (mainst.pc = "exited" /\ runs = mainst.base + 1 /\ pc = "raised") =>
        /\ mainst.logged = "Bot execution failed"
        /\ mainst.exc = raised
        /\ mainst.exc # ""
        /\ mainst.exit # 0

\* the batch insert of the run failed and main() ended with status 1
C23_Witness ==
    /\ mainst.pc = "exited"
    /\ runs = mainst.base + 1
    /\ pc = "raised"
    /\ raised = "DbError"
    /\ mainst.exit = 1

\* C29: main() gates on health_check: with an unhealthy result run_once is not
\* invoked (no fetch, no ledger write, no notification) and main() returns
\* normally.
C29_UnhealthySkipsRun ==
    [][ mainst'.health = "unhealthy" =>
            /\ mainst'.pc = "exited"
            /\ mainst'.exit = 0
            /\ mainst'.exc = ""
            /\ runs' = mainst'.base
            /\ UNCHANGED << ledger, pc, runs, yielded, new_items, trace, conn >> ]_vars

\* a configuration with a page and a channel, the check was unhealthy and
\* main() has returned without a run
C29_Witness ==
    /\ mainst.pc = "exited"
    /\ mainst.health = "unhealthy"
    /\ mainst.exit = 0
    /\ validate_config(cfg)
    /\ runs = mainst.base
    /\ pc = "idle"

\* C24: the excerpt is the context itself, without marker, when the context
\* has at most 1500 characters, and the first 1500 characters followed by the
\* marker when it is longer.
C24_MarkerExactlyWhenCut ==
    fcall.pc = "returned" =>
        IF Len(fcall.context) <= 1500
        THEN fcall.excerpt = fcall.context
        ELSE fcall.excerpt = SubSeq(fcall.context, 1, 1500) \o << 8230 >>

\* C25: the existence check and the insert form a critical section per
\* normalized code: two runs at the same time never both pass the check for
\* the same code, so no code is notified by both.
C25_CheckInsertCritical ==
    /\ \A k1 \in 1..Len(par[1].new_items), k2 \in 1..Len(par[2].new_items) :
          normalize_code(par[1].new_items[k1].code)
              # normalize_code(par[2].new_items[k2].code)
    /\ \A k1 \in 1..Len(par[1].notified), k2 \in 1..Len(par[2].notified) :
          normalize_code(par[1].notified[k1]) # normalize_code(par[2].notified[k2])

\* C26: a run whose batch insert failed sent no notification and left none of
\* the codes of the batch in the ledger; the next run on the same content has
\* them in new_items again, stores their rows and, when it has returned, has
\* made a delivery call for each of them on every configured channel.
C26_FailedBatchRediscovered ==
    /\ (pc = "raised" /\ raised = "DbError") =>
          /\ \A i \in 1..Len(trace) : trace[i].ev # "deliver"
          /\ \A k \in 1..Len(codes_to_insert) :
                /\ ~code_exists(ledger, codes_to_insert[k].code)
                /\ ~\E r \in 1..Len(ledger) : ledger[r].code = codes_to_insert[k].code
    /\ \A k \in 1..Len(failed_batch) :
          /\ \E n \in 1..Len(new_items) : new_items[n].code = failed_batch[k]
          /\ pc \in {"persisted", "done"} =>
                \E r \in 1..Len(ledger) :
                    /\ ledger[r].code = failed_batch[k]
                    /\ ledger[r].date_found_utc = runs
          /\ pc = "done" =>
                \A chan \in {"discord", "slack"} :
                    ChannelOn(chan) => Deliveries(chan, failed_batch[k]) # {}

\* the insert of the first run failed; the second run was served the same
\* content, stored the code and has made its delivery call
C26_Witness ==
    /\ runs = 2
    /\ pc = "done"
    /\ failed_batch # << >>
    /\ \E r \in 1..Len(ledger) : ledger[r].code = failed_batch[1]
    /\ \E chan \in {"discord", "slack"} : Deliveries(chan, failed_batch[1]) # {}

\* the codes of the combined document of each post: title, body and the first
\* ten top-level comments
CombinedDocCodes ==
    [p \in 1..NPosts |->
        extract_codes(TextOf(Posts[p].title) \o << 10, 10 >> \o TextOf(Posts[p].selftext)
                      \o ConcatTexts(Take(Posts[p].comments, 10)))]

\* C27: the forum fetcher yields every code of the combined document of a post
\* (title, body, first ten comments), also a code that is only in a comment
\* of a post whose title and body hold no code.
C27_CommentCodesYielded ==
    (/\ Fetched
     /\ "reddit" \in SeqToSet(Fetchers(cfg, env.up))
     /\ env.commentsOk) =>
        \A i \in 1..Len(cfg.subs), k \in 1..Len(env.listing) :
            env.subOk[i] =>
                \A c \in 1..Len(CombinedDocCodes[env.listing[k]]) :
                    \E y \in 1..Len(yielded) :
                        /\ yielded[y].code = CombinedDocCodes[env.listing[k]][c]
                        /\ yielded[y].source.kind = "Reddit"
                        /\ yielded[y].source.loc = cfg.subs[i]
                        /\ yielded[y].source.post = Posts[env.listing[k]].id

\* C28: once a row for a code is committed, no later run makes a delivery
\* call for that code on any channel: every delivery call of a run is for a
\* code that had no row, by display form or by key, when the run started.
C28_NoDeliveryAfterCommit ==
    \A i \in 1..Len(trace) :
        trace[i].ev = "deliver" =>
            ~\E r \in 1..Len(ledger) :
                /\ ledger[r].date_found_utc < runs
                /\ \/ ledger[r].code = trace[i].code
                   \/ ledger[r].normalized_code = normalize_code(trace[i].code)

\* the first run stored the codes it was served; the second run was served
\* the same content and has returned without a delivery call
C28_Witness ==
    /\ runs = 2
    /\ pc = "done"
    /\ repeat
    /\ yielded # << >>
    /\ \A y \in 1..Len(yielded) :
          \E r \in 1..Len(ledger) :
              ledger[r].code = yielded[y].code /\ ledger[r].date_found_utc = 1
    /\ ChannelOn("discord") \/ ChannelOn("slack")
    /\ new_items = << >>
    /\ trace = << >>

\* C30: an import never fails and, when it has returned: every code of the old
\* ledger has its normalized key in the new ledger and code_exists is true for
\* it; imported plus duplicates is the number of old rows; the rows that were
\* there are kept and the imported ones add no second row for a key; a second
\* import of the same old ledger imports nothing and leaves the ledger as it was.
C30_ImportDedupOnKey ==
    /\ imp.pc # "raised"
    /\ imp.pc = "returned" =>
          /\ \A k \in 1..Len(imp.old) :
                /\ code_exists(ledger, imp.old[k].code)
                /\ \E r \in 1..Len(ledger) :
                      ledger[r].normalized_code = normalize_code(imp.old[k].code)
          /\ imp.ret[1] + imp.ret[2] = Len(imp.old)
          /\ Len(ledger) = Len(imp.pre) + imp.ret[1]
          /\ SubSeq(ledger, 1, Len(imp.pre)) = imp.pre
          /\ \A r \in (Len(imp.pre) + 1)..Len(ledger) :
                ~\E q \in 1..(r - 1) :
                    ledger[q].normalized_code = ledger[r].normalized_code
          /\ imp.calls >= 2 => (imp.ret[1] = 0 /\ ledger = imp.pre)

\* the old ledger holds two codes with one key; it was imported twice and the
\* new ledger has one row for that key
C30_Witness ==
    /\ imp.pc = "returned"
    /\ imp.calls = 2
    /\ Len(imp.old) = 2
    /\ imp.old[1].code # imp.old[2].code
    /\ normalize_code(imp.old[1].code) = normalize_code(imp.old[2].code)
    /\ imp.ret[1] = 0
    /\ imp.ret[2] = 2
    /\ Cardinality({ r \in 1..Len(ledger) :
                       ledger[r].normalized_code = normalize_code(imp.old[1].code) }) = 1
====
